---- MODULE Spec2Model ----
(***************************************************************************)
(* Model of the PostgreSQL-to-Firebolt converter's correction loop         *)
(* (converter/live_tester.py, LiveQueryTester) and of its execution        *)
(* gateway (converter/firebolt_client.py, FireboltClient).                 *)
(*                                                                         *)
(* Text is a sequence of characters over a small alphabet:                 *)
(*   "A" an upper-case letter, "a" its lower-case form, "b" another        *)
(*   lower-case letter, " " whitespace, ";" a semicolon, "F" a markdown    *)
(*   code fence (three backticks), "q" the tag sql that may follow an      *)
(*   opening fence.                                                        *)
(***************************************************************************)
EXTENDS Integers, Sequences, FiniteSets, TLC

\* ------------------------------------------------------------------ bounds
MaxAttemptsBound == 4
\* longest log of failed attempts given to the suggestion generator
MaxLogLen == 3

\* ------------------------------------------------------------------ text
RECURSIVE LStrip(_)
LStrip(s) == IF s # <<>> /\ Head(s) = " " THEN LStrip(Tail(s)) ELSE s

RECURSIVE RStrip(_)
RStrip(s) ==
    IF s # <<>> /\ s[Len(s)] = " " THEN RStrip(SubSeq(s, 1, Len(s) - 1)) ELSE s

\* str.strip()
Strip(s) == RStrip(LStrip(s))

\* str.rstrip(';')
RECURSIVE RStripSemi(_)
RStripSemi(s) ==
    IF s # <<>> /\ s[Len(s)] = ";" THEN RStripSemi(SubSeq(s, 1, Len(s) - 1)) ELSE s

\* ' '.join(s.split()): runs of whitespace become one blank, none at the ends
RECURSIVE Collapse(_)
Collapse(s) ==
    IF s = <<>> THEN <<>>
    ELSE IF Head(s) = " "
         THEN LET r == LStrip(s) IN IF r = <<>> THEN <<>> ELSE <<" ">> \o Collapse(r)
         ELSE <<Head(s)>> \o Collapse(Tail(s))

JoinSplit(s) == Collapse(Strip(s))

LowerChar(c) == IF c = "A" THEN "a" ELSE c

\* str.lower()
Lower(s) == [i \in 1..Len(s) |-> LowerChar(s[i])]

StartsWith(s, p) == Len(s) >= Len(p) /\ SubSeq(s, 1, Len(p)) = p

EndsWith(s, p) == Len(s) >= Len(p) /\ SubSeq(s, Len(s) - Len(p) + 1, Len(s)) = p

Fence == <<"F">>
FenceSql == <<"F", "q">>

\* LiveQueryTester._normalize_sql
normalize_sql(sql) ==
    IF sql = <<>> THEN <<>> ELSE Lower(RStripSemi(JoinSplit(sql)))

\* LiveQueryTester._clean_sql_response
clean_sql_response(response) ==
    IF response = <<>> THEN <<>>
    ELSE LET r1 == IF StartsWith(response, FenceSql)
                   THEN SubSeq(response, Len(FenceSql) + 1, Len(response))
                   ELSE IF StartsWith(response, Fence)
                        THEN SubSeq(response, Len(Fence) + 1, Len(response))
                        ELSE response
             r2 == IF EndsWith(r1, Fence)
                   THEN SubSeq(r1, 1, Len(r1) - Len(Fence))
                   ELSE r1
         IN Strip(r2)

\* ------------------------------------------------------- correction loop
\* inputs of one run of LiveQueryTester.test_and_fix_query
InputQueries == {<<"A", ";">>}

\* texts Converter.convert may hand back as converted_sql
ConvertOutputs == {<<"a">>, <<"a", " ", "a">>}

\* error strings a gateway reports, as sequences of words; a failure result
\* may also lack the key
ErrorMsgs == {<<"Syntax error", "near", "::">>}
UnknownError == <<"Unknown error">>
NoErrorKey == <<"<no error key>">>
AllErrorMsgs == ErrorMsgs \cup {UnknownError}

\* str.lower() on the words of an error string
LowerWord(w) ==
    CASE w = "EXTRACT()" -> "extract()"
      [] w = "Syntax error" -> "syntax error"
      [] OTHER -> w

\* needle in error, for a needle that is one word of the model
Contains(error, needle) == \E i \in 1..Len(error) : error[i] = needle

ContainsLower(error, needle) ==
    \E i \in 1..Len(error) : LowerWord(error[i]) = needle

HintExtract ==
    "EXTRACT function requires DATE/TIMESTAMP input. Use CAST(column AS DATE) inside EXTRACT."
HintSyntax ==
    "Check SQL syntax, especially parentheses and subquery structure."
HintCast ==
    "PostgreSQL casting (::) not supported. Use CAST(value AS TYPE) syntax."
HintGeneric ==
    "Consider using a different engine or checking Firebolt documentation."
HintConversion == "Check the PostgreSQL query syntax"

\* attempt.get('error', '')
ErrorOf(a) == IF "error" \in DOMAIN a THEN a.error ELSE <<>>

\* _generate_manual_fix_suggestions lines 343-356: the list before the
\* duplicates are removed
RECURSIVE suggestions_list(_)
suggestions_list(log) ==
    IF log = <<>> THEN <<>>
    ELSE LET error == ErrorOf(Head(log)) IN
         (IF ContainsLower(error, "extract()") THEN <<HintExtract>> ELSE <<>>)
         \o (IF ContainsLower(error, "syntax error") THEN <<HintSyntax>> ELSE <<>>)
         \o (IF Contains(error, "::") THEN <<HintCast>> ELSE <<>>)
         \o suggestions_list(Tail(log))

\* variant that gives no hint when nothing matched
suggestions_or_nothing(log) == suggestions_list(log)

\* lines 358-359: the generic hint when nothing matched
suggestions_or_generic(log) ==
    LET l == suggestions_list(log) IN IF l = <<>> THEN <<HintGeneric>> ELSE l

\* line 361, list(set(suggestions)): the lists that hold each element of
\* the set once, in any order
ListsOfSet(S) ==
    {l \in [1..Cardinality(S) -> S] : \A x \in S : \E i \in DOMAIN l : l[i] = x}

\* _generate_manual_fix_suggestions: the lists it may return
generate_manual_fix_suggestions(log) ==
    LET l == suggestions_or_generic(log) IN
    ListsOfSet({l[i] : i \in 1..Len(l)})

\* result payloads of a successful execute
ResultRows == {"R1", "R2"}

\* raw answers of the language model: plain text, or text wrapped in fences
Responses ==
    {<<>>, <<" ">>,
     <<"a">>, <<"A", ";">>,
     <<"a", " ", " ", "a">>, <<" ", "A", " ", "a", ";">>,
     <<"b">>,
     <<"F", "q", " ", "a", " ", "F">>,
     <<"F", "b", "F">>,
     <<"F", "F">>}

NoReport == [kind |-> "none"]
NoCorrection == [kind |-> "none", attempt |-> 0, text |-> <<>>]

VARIABLES
    pc,                       \* position in test_and_fix_query
    postgresql_query,         \* argument
    max_correction_attempts,  \* argument
    openai_api_key,           \* TRUE iff LiveQueryTester holds a key
    converted_query,          \* local
    attempt,                  \* loop variable
    attempts,                 \* local: the attempt log
    error_history,            \* local: message -> attempt numbers
    report,                   \* the returned dict
    convert_calls,            \* number of query_converter.convert calls
    executed,                 \* the execute_query calls: text and outcome
    repair_requests,          \* prompts sent to the language model
    correction                \* outcome of the last _get_correction call

loopVars == <<pc, postgresql_query, max_correction_attempts, openai_api_key,
              converted_query, attempt, attempts, error_history, report,
              convert_calls, executed, repair_requests, correction>>

LoopInit ==
    /\ pc = "convert"
    /\ postgresql_query \in InputQueries
    /\ max_correction_attempts \in (-1)..MaxAttemptsBound
    /\ openai_api_key \in BOOLEAN
    /\ converted_query = postgresql_query
    /\ attempt = 0
    /\ attempts = <<>>
    /\ error_history = [m \in AllErrorMsgs |-> <<>>]
    /\ report = NoReport
    /\ convert_calls = 0
    /\ executed = <<>>
    /\ repair_requests = <<>>
    /\ correction = NoCorrection

\* lines 65-71
ConversionFailedReport ==
    [kind |-> "conversion_failed",
     success |-> FALSE,
     final_query |-> postgresql_query,
     error |-> "Conversion failed",
     attempts |-> <<>>,
     suggestions |-> <<HintConversion>>]

\* variant of the exhausted report that counts one attempt too many
ExhaustedReport_offbyone(log, query, hints) ==
    [kind |-> "exhausted",
     success |-> FALSE,
     final_status |-> "failed",
     final_query |-> query,
     error |-> "Failed after attempts",
     attempts |-> log,
     total_attempts |-> max_correction_attempts + 1,
     suggestions |-> hints]

\* variant of the exhausted report that reports the query the run was
\* given
ExhaustedReport_given(log, query, hints) ==
    [kind |-> "exhausted",
     success |-> FALSE,
     final_status |-> "failed",
     final_query |-> postgresql_query,
     error |-> "Failed after attempts",
     attempts |-> log,
     total_attempts |-> max_correction_attempts,
     suggestions |-> hints]

\* lines 133-144; hints: what _generate_manual_fix_suggestions returned
ExhaustedReport(log, query, hints) ==
    [kind |-> "exhausted",
     success |-> FALSE,
     final_status |-> "failed",
     final_query |-> query,
     error |-> "Failed after attempts",
     attempts |-> log,
     total_attempts |-> max_correction_attempts,
     suggestions |-> hints]

\* variant of the success report that reports the attempt budget
SuccessReport_budget(log, query, rows, n) ==
    [kind |-> "success",
     success |-> TRUE,
     final_status |-> "success",
     final_query |-> query,
     final_result |-> rows,
     result |-> rows,
     attempts |-> log,
     total_attempts |-> max_correction_attempts]

\* lines 90-98
SuccessReport(log, query, rows, n) ==
    [kind |-> "success",
     success |-> TRUE,
     final_status |-> "success",
     final_query |-> query,
     final_result |-> rows,
     result |-> rows,
     attempts |-> log,
     total_attempts |-> n]

\* lines 56-74: the initial conversion, then entry into the for loop
\*   out.kind = "raises"  convert raised
\*   out.kind = "no_key"  the dict has no converted_sql
\*   out.kind = "sql"     the dict's converted_sql is out.text
Convert(out) ==
    /\ pc = "convert"
    /\ convert_calls' = convert_calls + 1
    /\ IF out.kind = "raises"
       THEN /\ pc' = "done"
            /\ report' = ConversionFailedReport
            /\ UNCHANGED <<converted_query, attempt>>
       ELSE LET q == IF out.kind = "no_key" THEN postgresql_query ELSE out.text IN
            /\ converted_query' = q
            /\ IF max_correction_attempts >= 1
               THEN /\ pc' = "execute"
                    /\ attempt' = 1
                    /\ report' = report
               ELSE /\ pc' = "done"
                    /\ attempt' = attempt
                    /\ \E hints \in generate_manual_fix_suggestions(attempts) :
                          report' = ExhaustedReport(attempts, q, hints)
    /\ UNCHANGED <<postgresql_query, max_correction_attempts, openai_api_key,
                   attempts, error_history, executed, repair_requests,
                   correction>>

\* lines 81-88
SuccessRecord(n, q, rows) ==
    [attempt |-> n, query |-> q, converted_query |-> q, success |-> TRUE,
     status |-> "success", result |-> rows]

\* variant of the failure record that numbers attempts from 0
FailureRecord_zerobased(n, q, msg) ==
    [attempt |-> n - 1, query |-> q, converted_query |-> q, success |-> FALSE,
     status |-> "failed", error |-> msg]

\* lines 112-119
FailureRecord(n, q, msg) ==
    [attempt |-> n, query |-> q, converted_query |-> q, success |-> FALSE,
     status |-> "failed", error |-> msg]

\* lines 77-98: execute_query returned (True, rows)
ExecuteSuccess(rows) ==
    /\ pc = "execute"
    /\ executed' = Append(executed, [query |-> converted_query, outcome |-> "rows"])
    /\ attempts' = Append(attempts, SuccessRecord(attempt, converted_query, rows))
    /\ report' = SuccessReport(attempts', converted_query, rows, attempt)
    /\ pc' = "done"
    /\ UNCHANGED <<postgresql_query, max_correction_attempts, openai_api_key,
                   converted_query, attempt, error_history, convert_calls,
                   repair_requests, correction>>

\* variant of the failure branch that starts the next attempt at once,
\* without the repair step
ExecuteFailure_norepair(err) ==
    /\ pc = "execute"
    /\ executed' =
          Append(executed, [query |-> converted_query, outcome |-> "failure"])
    /\ LET nr_message == IF err = NoErrorKey THEN UnknownError ELSE err IN
       /\ error_history' =
             [error_history EXCEPT ![nr_message] = Append(@, attempt)]
       /\ attempts' =
             Append(attempts, FailureRecord(attempt, converted_query, nr_message))
    /\ IF attempt < max_correction_attempts
       THEN /\ pc' = "execute"
            /\ attempt' = attempt + 1
            /\ report' = report
       ELSE /\ pc' = "done"
            /\ attempt' = attempt
            /\ \E hints \in generate_manual_fix_suggestions(attempts') :
                  report' = ExhaustedReport(attempts', converted_query, hints)
    /\ UNCHANGED <<postgresql_query, max_correction_attempts, openai_api_key,
                   converted_query, convert_calls, repair_requests,
                   correction>>

\* variant of the failure branch that asks for a repair after the last
\* attempt too
ExecuteFailure_repairlast(err) ==
    /\ pc = "execute"
    /\ executed' =
          Append(executed, [query |-> converted_query, outcome |-> "failure"])
    /\ LET rl_message == IF err = NoErrorKey THEN UnknownError ELSE err IN
       /\ error_history' =
             [error_history EXCEPT ![rl_message] = Append(@, attempt)]
       /\ attempts' =
             Append(attempts, FailureRecord(attempt, converted_query, rl_message))
    /\ IF attempt <= max_correction_attempts
       THEN /\ pc' = "repair"
            /\ report' = report
       ELSE /\ pc' = "done"
            /\ \E hints \in generate_manual_fix_suggestions(attempts') :
                  report' = ExhaustedReport(attempts', converted_query, hints)
    /\ UNCHANGED <<postgresql_query, max_correction_attempts, openai_api_key,
                   converted_query, attempt, convert_calls, repair_requests,
                   correction>>

\* variant of the failure branch that enters the attempt under every
\* message of the history
ExecuteFailure_everykey(err) ==
    /\ pc = "execute"
    /\ executed' =
          Append(executed, [query |-> converted_query, outcome |-> "failure"])
    /\ error_history' =
          [m \in AllErrorMsgs |-> Append(error_history[m], attempt)]
    /\ attempts' =
          Append(attempts,
                 FailureRecord(attempt, converted_query,
                               IF err = NoErrorKey THEN UnknownError ELSE err))
    /\ IF attempt < max_correction_attempts
       THEN /\ pc' = "repair"
            /\ report' = report
       ELSE /\ pc' = "done"
            /\ \E hints \in generate_manual_fix_suggestions(attempts') :
                  report' = ExhaustedReport(attempts', converted_query, hints)
    /\ UNCHANGED <<postgresql_query, max_correction_attempts, openai_api_key,
                   converted_query, attempt, convert_calls, repair_requests,
                   correction>>

\* lines 77, 100-122 and 133-144: execute_query returned (False, result);
\* err is result['error'], or NoErrorKey when the dict lacks the key
ExecuteFailure(err) ==
    /\ pc = "execute"
    /\ executed' =
          Append(executed, [query |-> converted_query, outcome |-> "failure"])
    /\ LET error_message == IF err = NoErrorKey THEN UnknownError ELSE err IN
       /\ error_history' =
             [error_history EXCEPT ![error_message] = Append(@, attempt)]
       /\ attempts' =
             Append(attempts, FailureRecord(attempt, converted_query, error_message))
    /\ IF attempt < max_correction_attempts
       THEN /\ pc' = "repair"
            /\ report' = report
       ELSE /\ pc' = "done"
            /\ \E hints \in generate_manual_fix_suggestions(attempts') :
                  report' = ExhaustedReport(attempts', converted_query, hints)
    /\ UNCHANGED <<postgresql_query, max_correction_attempts, openai_api_key,
                   converted_query, attempt, convert_calls, repair_requests,
                   correction>>

\* line 77: execute_query raised; nothing in test_and_fix_query catches it
ExecuteRaises ==
    /\ pc = "execute"
    /\ executed' =
          Append(executed, [query |-> converted_query, outcome |-> "raises"])
    /\ pc' = "raised"
    /\ UNCHANGED <<postgresql_query, max_correction_attempts, openai_api_key,
                   converted_query, attempt, attempts, error_history, report,
                   convert_calls, repair_requests, correction>>

\* variant of the repeated-error test that also fires on a first occurrence
is_repeated_error_first(history, error_message) ==
    Len(history[error_message]) >= 1

\* _get_correction line 160
is_repeated_error(history, error_message) ==
    Len(history[error_message]) > 1

\* variant of _get_correction that returns any non-empty answer
get_correction_nocompare(query, llm) ==
    IF ~openai_api_key THEN [kind |-> "no_key", text |-> <<>>, value |-> "None"]
    ELSE IF llm.kind = "import_fails"
         THEN [kind |-> "import_fails", text |-> <<>>, value |-> "None"]
    ELSE IF llm.kind = "raises"
         THEN [kind |-> "raises", text |-> <<>>, value |-> "None"]
    ELSE LET corrected == clean_sql_response(Strip(llm.text)) IN
         IF Strip(corrected) = <<>>
         THEN [kind |-> "text", text |-> corrected, value |-> "None"]
         ELSE [kind |-> "text", text |-> corrected, value |-> "text"]

\* variant of _get_correction that answers a failed call with the input text
get_correction_fallback(query, llm) ==
    IF ~openai_api_key THEN [kind |-> "no_key", text |-> <<>>, value |-> "None"]
    ELSE IF llm.kind = "import_fails"
         THEN [kind |-> "import_fails", text |-> <<>>, value |-> "None"]
    ELSE IF llm.kind = "raises"
         THEN [kind |-> "raises", text |-> postgresql_query, value |-> "text"]
    ELSE LET corrected == clean_sql_response(Strip(llm.text))
             corrected_cleaned == normalize_sql(corrected)
             original_cleaned == normalize_sql(query)
         IN IF Strip(corrected) = <<>> \/ corrected_cleaned = original_cleaned
            THEN [kind |-> "text", text |-> corrected, value |-> "None"]
            ELSE [kind |-> "text", text |-> corrected, value |-> "text"]

\* variant of _get_correction that calls the model without a key
get_correction_keyless(query, llm) ==
    IF llm.kind = "import_fails"
    THEN [kind |-> "import_fails", text |-> <<>>, value |-> "None"]
    ELSE IF llm.kind = "raises"
         THEN [kind |-> "raises", text |-> <<>>, value |-> "None"]
    ELSE IF Strip(clean_sql_response(Strip(llm.text))) = <<>>
            \/ normalize_sql(clean_sql_response(Strip(llm.text))) = normalize_sql(query)
         THEN [kind |-> "text", text |-> clean_sql_response(Strip(llm.text)),
               value |-> "None"]
         ELSE [kind |-> "text", text |-> clean_sql_response(Strip(llm.text)),
               value |-> "text"]

\* _get_correction lines 146-253, given the outcome llm of the model call:
\*   kind "import_fails"  import openai raised, no request was sent
\*   kind "raises"        the request was sent and the call (or reading
\*                        its content) raised
\*   kind "content"       response.choices[0].message.content is llm.text
\* value = "None" when the method returns None, "text" when it returns text
get_correction(query, llm) ==
    IF ~openai_api_key THEN [kind |-> "no_key", text |-> <<>>, value |-> "None"]
    ELSE IF llm.kind = "import_fails"
         THEN [kind |-> "import_fails", text |-> <<>>, value |-> "None"]
    ELSE IF llm.kind = "raises"
         THEN [kind |-> "raises", text |-> <<>>, value |-> "None"]
    ELSE LET corrected == clean_sql_response(Strip(llm.text))
             corrected_cleaned == normalize_sql(corrected)
             original_cleaned == normalize_sql(query)
         IN IF Strip(corrected) = <<>> \/ corrected_cleaned = original_cleaned
            THEN [kind |-> "text", text |-> corrected, value |-> "None"]
            ELSE [kind |-> "text", text |-> corrected, value |-> "text"]

\* the prompt of lines 166-198, reduced to what distinguishes it
RepairRequest(query, error_message) ==
    [attempt |-> attempt,
     escalated |-> is_repeated_error(error_history, error_message),
     error |-> error_message,
     query |-> query,
     previous_attempts |-> error_history[error_message]]

\* variant of the query update that falls back to the original input
next_query_restart(c, query) ==
    IF c.value = "text" /\ c.text # <<>> /\ c.text # query
    THEN c.text
    ELSE postgresql_query

\* lines 126-131: the query of the next attempt, given what _get_correction
\* returned
next_query(c, query) ==
    IF c.value = "text" /\ c.text # <<>> /\ c.text # query
    THEN c.text
    ELSE query

LlmOutcomes ==
    {[kind |-> k, text |-> <<>>] : k \in {"import_fails", "raises"}}
    \cup {[kind |-> "content", text |-> t] : t \in Responses}

ConvertOutcomes ==
    {[kind |-> k, text |-> <<>>] : k \in {"raises", "no_key"}}
    \cup {[kind |-> "sql", text |-> t] : t \in ConvertOutputs}

\* variant of the repair step that does not count the attempt: the next
\* execution carries the number of the failed one
Repair_samenumber(llm) ==
    /\ pc = "repair"
    /\ correction' =
          [kind |-> get_correction(converted_query, llm).kind,
           attempt |-> attempt,
           text |-> get_correction(converted_query, llm).text]
    /\ repair_requests' =
          IF get_correction(converted_query, llm).kind \in {"raises", "text"}
          THEN Append(repair_requests,
                      RepairRequest(converted_query, attempts[Len(attempts)].error))
          ELSE repair_requests
    /\ converted_query' =
          next_query(get_correction(converted_query, llm), converted_query)
    /\ attempt' = attempt
    /\ pc' = "execute"
    /\ UNCHANGED <<postgresql_query, max_correction_attempts, openai_api_key,
                   attempts, error_history, report, convert_calls, executed>>

\* lines 122-131 with _get_correction: the repair after a failed attempt
Repair(llm) ==
    /\ pc = "repair"
    /\ LET error_message == attempts[Len(attempts)].error
           c == get_correction(converted_query, llm)
       IN /\ correction' = [kind |-> c.kind, attempt |-> attempt,
                            text |-> c.text]
          /\ repair_requests' =
                IF c.kind \in {"raises", "text"}
                THEN Append(repair_requests,
                            RepairRequest(converted_query, error_message))
                ELSE repair_requests
          /\ converted_query' = next_query(c, converted_query)
    /\ attempt' = attempt + 1
    /\ pc' = "execute"
    /\ UNCHANGED <<postgresql_query, max_correction_attempts, openai_api_key,
                   attempts, error_history, report, convert_calls, executed>>


\* ----------------------------------------------------- execution gateway
Fields == {"client_id", "client_secret", "account", "database", "engine"}
Required == {"client_id", "client_secret", "account", "database"}

\* None (or the empty string): a falsy credential value
NoneV == "None"

NoArgs == [f \in Fields |-> NoneV]
FullV1 == [f \in Fields |-> "v1"]

\* argument tuples of FireboltClient(...)
CtorArgs ==
    {NoArgs, FullV1, [FullV1 EXCEPT !["engine"] = NoneV],
     [FullV1 EXCEPT !["client_secret"] = NoneV]}

\* argument tuples of connect(...)
ConnectArgs ==
    {NoArgs, FullV1, [FullV1 EXCEPT !["engine"] = NoneV],
     [NoArgs EXCEPT !["client_secret"] = "v2"],
     [NoArgs EXCEPT !["engine"] = "v2"]}

NoConnection == [open |-> FALSE, profile |-> NoArgs]

NoEvent ==
    [op |-> "none", prev |-> "none", before |-> NoArgs, restored |-> FALSE,
     auth |-> "none", auth_profile |-> NoArgs,
     ret |-> "none", error |-> "", error_present |-> {}, error_type |-> ""]

VARIABLES
    creds,                 \* client_id, client_secret, account, database, engine
    original_credentials,  \* self._original_credentials (NoneV: key absent)
    connection,            \* self.connection and the profile it was opened with
    gw_pc,                 \* "idle", or "run" inside execute_query
    gw_event               \* what the last gateway operation did and returned

gwVars == <<creds, original_credentials, connection, gw_pc, gw_event>>

\* FireboltClient.__init__
GwInit ==
    /\ creds \in CtorArgs
    /\ original_credentials = creds
    /\ connection = NoConnection
    /\ gw_pc = "idle"
    /\ gw_event = NoEvent

\* all([self.client_id, self.client_secret, self.account, self.database])
all_required(c) == \A f \in Required : c[f] # NoneV

\* FireboltClient._restore_credentials
restore_credentials(c, backup) ==
    [f \in Fields |-> IF c[f] = NoneV /\ backup[f] # NoneV THEN backup[f] ELSE c[f]]

\* variant of authenticate that hands any profile to the connector
authenticate_unchecked(c, conn, authOk) ==
    IF authOk
    THEN [ok |-> TRUE, connection |-> [open |-> TRUE, profile |-> c],
          auth |-> "ok"]
    ELSE [ok |-> FALSE, connection |-> conn, auth |-> "failed"]

\* FireboltClient.authenticate; authOk: the connector's connect() returned.
\* auth = "missing": lines 146-157 returned before the connector was called
authenticate(c, conn, authOk) ==
    IF ~all_required(c)
    THEN [ok |-> FALSE, connection |-> conn, auth |-> "missing"]
    ELSE IF authOk
         THEN [ok |-> TRUE, connection |-> [open |-> TRUE, profile |-> c],
               auth |-> "ok"]
         ELSE [ok |-> FALSE, connection |-> conn, auth |-> "failed"]

\* FireboltClient.ensure_authenticated; testOk: SELECT 1 on the existing
\* connection returned
ensure_authenticated(c, conn, backup, testOk, authOk) ==
    LET c1 == IF ~all_required(c) THEN restore_credentials(c, backup) ELSE c IN
    IF ~conn.open
    THEN LET a == authenticate(c1, conn, authOk) IN
         [ok |-> a.ok, creds |-> c1, connection |-> a.connection,
          auth |-> a.auth]
    ELSE IF testOk
         THEN [ok |-> TRUE, creds |-> c1, connection |-> conn, auth |-> "none"]
         ELSE LET c2 == restore_credentials(c1, backup)
                  a == authenticate(c2, NoConnection, authOk)
              IN [ok |-> a.ok, creds |-> c2, connection |-> a.connection,
                  auth |-> a.auth]

MissingCredentialsText == "Authentication failed - Missing credentials"

\* the error text of execute_query lines 242-247
AuthErrorText(c) ==
    IF ~all_required(c)
    THEN MissingCredentialsText
    ELSE "Authentication failed"

\* line 243: the fields the message reports as present (name=True); the
\* other required fields are reported as name=False
AuthErrorPresent(c) ==
    IF ~all_required(c) THEN {f \in Required : c[f] # NoneV} ELSE {}

\* execute_query lines 238-247: up to the first await of the query itself
ExecuteAuth(testOk, authOk) ==
    /\ gw_pc = "idle"
    /\ LET e == ensure_authenticated(creds, connection, original_credentials,
                                     testOk, authOk)
       IN /\ creds' = e.creds
          /\ connection' = e.connection
          /\ gw_pc' = IF e.ok THEN "run" ELSE "idle"
          /\ gw_event' =
                [op |-> "execute", prev |-> gw_event.ret, before |-> creds,
                 restored |-> (e.creds # creds),
                 auth |-> e.auth, auth_profile |-> e.creds,
                 ret |-> IF e.ok THEN "pending" ELSE "failure",
                 error |-> IF e.ok THEN "" ELSE AuthErrorText(e.creds),
                 error_present |->
                    IF e.ok THEN {} ELSE AuthErrorPresent(e.creds),
                 error_type |-> IF e.ok THEN "" ELSE "auth_error"]
    /\ UNCHANGED original_credentials

\* execute_query lines 249-267: the query ran and returned rows
ExecuteRows ==
    /\ gw_pc = "run"
    /\ connection.open
    /\ gw_pc' = "idle"
    /\ gw_event' = [gw_event EXCEPT !.ret = "rows"]
    /\ UNCHANGED <<creds, original_credentials, connection>>

\* variant of the handler that also forgets the credentials
ExecuteRaise_forget ==
    /\ gw_pc = "run"
    /\ connection' = NoConnection
    /\ creds' = NoArgs
    /\ gw_pc' = "idle"
    /\ gw_event' = [gw_event EXCEPT !.ret = "raised",
                                    !.error = "AttributeError"]
    /\ UNCHANGED original_credentials

\* execute_query lines 269-279: the connector raised while running the
\* query. The handler drops the connection and then evaluates
\* self._categorize_error, a method FireboltClient does not define, so the
\* handler itself raises AttributeError out of execute_query.
ExecuteRaise ==
    /\ gw_pc = "run"
    /\ connection' = NoConnection
    /\ gw_pc' = "idle"
    /\ gw_event' = [gw_event EXCEPT !.ret = "raised",
                                    !.error = "AttributeError"]
    /\ UNCHANGED <<creds, original_credentials>>

\* variant of connect that updates the fields and leaves the backup alone
Connect_nobackup(args, authOk) ==
    /\ gw_pc = "idle"
    /\ LET nb_c == [f \in Fields |->
                       IF args[f] # NoneV THEN args[f] ELSE creds[f]]
           nb_a == IF all_required(nb_c)
                   THEN authenticate(nb_c, connection, authOk)
                   ELSE [ok |-> FALSE, connection |-> connection,
                         auth |-> "none"]
       IN /\ creds' = nb_c
          /\ connection' = nb_a.connection
          /\ gw_event' =
                [op |-> "connect", prev |-> gw_event.ret, before |-> creds,
                 restored |-> FALSE,
                 auth |-> nb_a.auth, auth_profile |-> nb_c,
                 ret |-> IF nb_a.ok THEN "true" ELSE "false",
                 error |-> "", error_present |-> {}, error_type |-> ""]
    /\ UNCHANGED <<gw_pc, original_credentials>>

\* FireboltClient.connect lines 81-130
Connect(args, authOk) ==
    /\ gw_pc = "idle"
    /\ LET c == [f \in Fields |-> IF args[f] # NoneV THEN args[f] ELSE creds[f]]
           b == [f \in Fields |->
                    IF args[f] # NoneV THEN args[f] ELSE original_credentials[f]]
           a == IF all_required(c)
                THEN authenticate(c, connection, authOk)
                ELSE [ok |-> FALSE, connection |-> connection, auth |-> "none"]
       IN /\ creds' = c
          /\ original_credentials' = b
          /\ connection' = a.connection
          /\ gw_event' =
                [op |-> "connect", prev |-> gw_event.ret, before |-> creds,
                 restored |-> FALSE,
                 auth |-> a.auth, auth_profile |-> c,
                 ret |-> IF a.ok THEN "true" ELSE "false",
                 error |-> "", error_present |-> {}, error_type |-> ""]
    /\ UNCHANGED gw_pc

\* loss of one credential field between calls (the defect the backup is for)
ClearField(f) ==
    /\ gw_pc = "idle"
    /\ creds[f] # NoneV
    /\ creds' = [creds EXCEPT ![f] = NoneV]
    /\ gw_event' = [NoEvent EXCEPT !.op = "clear_field", !.before = creds]
    /\ UNCHANGED <<original_credentials, connection, gw_pc>>

\* client.connection = None between calls (test_live_scenario.py line 63)
InvalidateConnection ==
    /\ gw_pc = "idle"
    /\ connection.open
    /\ connection' = NoConnection
    /\ gw_event' = [NoEvent EXCEPT !.op = "invalidate", !.before = creds]
    /\ UNCHANGED <<creds, original_credentials, gw_pc>>

\* ------------------------------------------------- concurrent callers
\* Callers of one shared FireboltClient. Each runs execute_query as its own
\* task; a task gives way at every await, and the function handed to the
\* executor reads self.connection in a worker thread when that thread gets
\* to run. FireboltClient holds no lock.
Callers == {1, 2}

\* connection handles the connector may hand out in one behaviour
MaxHandles == 3

\* no handle: self.connection is None
NoHandle == 0

IdleCall == [pc |-> "idle", handle |-> NoHandle, test |-> "none", ret |-> "none"]

VARIABLES
    calls,         \* per caller: position in execute_query, handle in use
    handle_id,     \* identity of the object self.connection holds
    handles_made   \* number of connections the connector has opened

concVars == <<calls, handle_id, handles_made>>

\* lines 146-157 of authenticate, run by the task before it awaits _connect:
\* the position the call moves to
AfterValidation(c) ==
    IF all_required(c) THEN "connecting" ELSE "idle"

\* execute_query line 240 and ensure_authenticated lines 192-214, up to the
\* first await: the connector's connect or the SELECT 1 test is handed to
\* the executor
CallBegins(c) ==
    /\ calls[c].pc = "idle"
    /\ LET c1 == IF ~all_required(creds)
                 THEN restore_credentials(creds, original_credentials)
                 ELSE creds
       IN /\ creds' = c1
          /\ IF handle_id = NoHandle
             THEN calls' = [calls EXCEPT ![c] =
                       [pc |-> AfterValidation(c1), handle |-> NoHandle,
                        test |-> "none",
                        ret |-> IF all_required(c1) THEN "pending"
                                ELSE "auth_error"]]
             ELSE calls' = [calls EXCEPT ![c] =
                       [pc |-> "testing", handle |-> NoHandle,
                        test |-> "none", ret |-> "pending"]]
    /\ UNCHANGED <<original_credentials, connection, gw_pc, gw_event,
                   handle_id, handles_made>>

\* authenticate lines 159-182: _connect returned or raised, the task goes
\* on; after a success it returns through ensure_authenticated and hands
\* _execute_query to the executor (line 257)
ConnectReturns(c, authOk) ==
    /\ calls[c].pc = "connecting"
    /\ authOk => handles_made < MaxHandles
    /\ LET a == authenticate(creds, connection, authOk) IN
       /\ connection' = a.connection
       /\ IF a.ok
          THEN /\ handles_made' = handles_made + 1
               /\ handle_id' = handles_made + 1
               /\ calls' = [calls EXCEPT ![c].pc = "submitted"]
          ELSE /\ UNCHANGED <<handles_made, handle_id>>
               /\ calls' = [calls EXCEPT ![c].pc = "idle",
                                         ![c].ret = "auth_error"]
    /\ UNCHANGED <<creds, original_credentials, gw_pc, gw_event>>

\* ensure_authenticated lines 206-210 in the worker thread: the test reads
\* self.connection when it runs; testOk: SELECT 1 on the handle returned
TestRuns(c, testOk) ==
    /\ calls[c].pc = "testing"
    /\ calls' = [calls EXCEPT
                    ![c].pc = "tested",
                    ![c].test = IF handle_id # NoHandle /\ testOk
                                THEN "ok" ELSE "failed"]
    /\ UNCHANGED <<gwVars, handle_id, handles_made>>

\* ensure_authenticated lines 212-227: the task goes on after the test
TestReturns(c) ==
    /\ calls[c].pc = "tested"
    /\ IF calls[c].test = "ok"
       THEN /\ calls' = [calls EXCEPT ![c].pc = "submitted"]
            /\ UNCHANGED <<creds, connection, handle_id>>
       ELSE LET c2 == restore_credentials(creds, original_credentials) IN
            /\ connection' = NoConnection
            /\ handle_id' = NoHandle
            /\ creds' = c2
            /\ calls' = [calls EXCEPT
                            ![c].pc = AfterValidation(c2),
                            ![c].ret = IF all_required(c2) THEN "pending"
                                       ELSE "auth_error"]
    /\ UNCHANGED <<original_credentials, gw_pc, gw_event, handles_made>>

\* execute_query lines 250-252 in the worker thread: _execute_query reads
\* self.connection when it runs and calls cursor() on what it finds
QueryStarts(c) ==
    /\ calls[c].pc = "submitted"
    /\ calls' = [calls EXCEPT ![c].pc = "running", ![c].handle = handle_id]
    /\ UNCHANGED <<gwVars, handle_id, handles_made>>

\* execute_query lines 257-279: the task goes on with the rows, or with the
\* exception of the worker (None has no cursor(), or the connector raised);
\* the handler drops self.connection, whoever else is using it
QueryReturns(c, queryOk) ==
    /\ calls[c].pc = "running"
    /\ IF calls[c].handle # NoHandle /\ queryOk
       THEN /\ calls' = [calls EXCEPT ![c].pc = "idle", ![c].ret = "rows"]
            /\ UNCHANGED <<connection, handle_id>>
       ELSE /\ calls' = [calls EXCEPT ![c].pc = "idle", ![c].ret = "raised"]
            /\ connection' = NoConnection
            /\ handle_id' = NoHandle
    /\ UNCHANGED <<creds, original_credentials, gw_pc, gw_event, handles_made>>

\* no caller is inside execute_query, no connection was opened yet
ConcAtRest ==
    /\ calls = [c \in Callers |-> IdleCall]
    /\ handle_id = NoHandle
    /\ handles_made = 0

\* ------------------------------------------------------ rewrite rules
\* SQL text of the converter is a sequence of tokens: a word (a maximal
\* run of letters, digits and underscores), one whitespace character, or
\* a punctuation mark. The text is the concatenation of its tokens.
Newline == "\n"
Spaces == {" ", Newline}
Puncts ==
    {"(", ")", "::", "->>", "->", "#>>", "#>", "'", "\"", ",", ".", "/",
     ":", ";", "/*", "*/", "{", "}", "$", "$$", "=", ">", "*"}

IsSpace(t) == t \in Spaces
IsWord(t) == t \notin Spaces /\ t \notin Puncts

\* str.lower() on a token, for the matching under re.IGNORECASE
FoldWord(t) ==
    CASE t = "CURRENT_TIMESTAMP" -> "current_timestamp"
      [] t = "NOW" -> "now"
      [] t = "AT" -> "at"
      [] t = "TIME" -> "time"
      [] t = "ZONE" -> "zone"
      [] t = "FILTER" -> "filter"
      [] t = "WHERE" -> "where"
      [] t = "JSON" -> "json"
      [] t = "JSONB" -> "jsonb"
      [] t = "MAX_BUSINESS_DATE" -> "max_business_date"
      [] t = "EXTRACT" -> "extract"
      [] t = "FROM" -> "from"
      [] t = "SELECT" -> "select"
      [] t = "POSITION" -> "position"
      [] t = "IN" -> "in"
      [] t = "CAST" -> "cast"
      [] t = "AS" -> "as"
      [] t = "MONTH" -> "month"
      [] t = "YEAR" -> "year"
      [] t = "DAY" -> "day"
      [] t = "HOUR" -> "hour"
      [] t = "MINUTE" -> "minute"
      [] t = "SECOND" -> "second"
      [] t = "MAX" -> "max"
      [] t = "JSON_VALUE" -> "json_value"
      [] t = "INT" -> "int"
      [] t = "TEXT" -> "text"
      [] t = "DATE" -> "date"
      [] t = "TIMESTAMP" -> "timestamp"
      [] t = "TIMESTAMPTZ" -> "timestamptz"
      [] t = "GROUP" -> "group"
      [] t = "ORDER" -> "order"
      [] t = "BY" -> "by"
      [] t = "LIMIT" -> "limit"
      [] t = "HAVING" -> "having"
      [] t = "EXCEPT" -> "except"
      [] t = "LATERAL" -> "lateral"
      [] t = "Function" -> "function"
      [] t = "Column" -> "column"
      [] t = "Scalar" -> "scalar"
      [] OTHER -> t

\* the elements of a pattern
\* one token whose lower-case form is in S (a literal under IGNORECASE)
T(S) == [k |-> "run", cls |-> "fold", set |-> S, lo |-> 1, hi |-> 1, greedy |-> TRUE]
\* one token that is exactly x
X(x) == [k |-> "run", cls |-> "exact", set |-> {x}, lo |-> 1, hi |-> 1, greedy |-> TRUE]
\* \s* and \s+
S0 == [k |-> "run", cls |-> "space", set |-> {}, lo |-> 0, hi |-> 0, greedy |-> TRUE]
S1 == [k |-> "run", cls |-> "space", set |-> {}, lo |-> 1, hi |-> 0, greedy |-> TRUE]
\* \w+
W == [k |-> "run", cls |-> "word", set |-> {}, lo |-> 1, hi |-> 1, greedy |-> TRUE]
\* [\w.]+
WordsDots == [k |-> "run", cls |-> "worddot", set |-> {}, lo |-> 1, hi |-> 0, greedy |-> TRUE]
\* [^...]+ , [^...]* and [^...]+?
RunNot(S) == [k |-> "run", cls |-> "notin", set |-> S, lo |-> 1, hi |-> 0, greedy |-> TRUE]
RunNot0(S) == [k |-> "run", cls |-> "notin", set |-> S, lo |-> 0, hi |-> 0, greedy |-> TRUE]
LazyNot(S) == [k |-> "run", cls |-> "notin", set |-> S, lo |-> 1, hi |-> 0, greedy |-> FALSE]
\* .+? without DOTALL
LazyDot == [k |-> "run", cls |-> "notin", set |-> {Newline}, lo |-> 1, hi |-> 0, greedy |-> FALSE]
\* \w+(?:\.\w+)?
QName == [k |-> "qname"]
\* the parentheses of capture group g
Open(g) == [k |-> "open", g |-> g]
Close(g) == [k |-> "close", g |-> g]
\* (?!p)
NotAhead(p) == [k |-> "nla", sub |-> p]

\* hi = 0 stands for no upper limit
InClass(e, t) ==
    CASE e.cls = "fold" -> FoldWord(t) \in e.set
      [] e.cls = "exact" -> t \in e.set
      [] e.cls = "space" -> IsSpace(t)
      [] e.cls = "word" -> IsWord(t)
      [] e.cls = "worddot" -> IsWord(t) \/ t = "."
      [] e.cls = "notin" -> t \notin e.set

Least(S) == CHOOSE x \in S : \A y \in S : x <= y
Greatest(S) == CHOOSE x \in S : \A y \in S : x >= y

\* the length of the longest run of tokens of the class of e that starts
\* at i
RunLen(e, s, i) ==
    LET limit == IF e.hi = 0 THEN Len(s) + 1 - i
                 ELSE IF e.hi < Len(s) + 1 - i THEN e.hi ELSE Len(s) + 1 - i
    IN Greatest({n \in 0..limit :
                    \A j \in 0..(n - 1) : InClass(e, s[i + j])})

MaxGroups == 3
NoCaps == [g \in 1..MaxGroups |-> <<0, 0>>]
NoMatch == [ok |-> FALSE, end |-> 0, caps |-> NoCaps]

\* The backtracking match of re, computed breadth first. A thread is one
\* way of matching the elements read so far: the position it has reached,
\* its groups, and for each element the rank of the choice it made there
\* (0 is the choice re tries first: the longest length of a greedy run,
\* the shortest of a lazy one). re returns the match it finds first, which
\* is the thread with the least sequence of ranks.
RECURSIVE MatchFrom(_, _, _, _, _)

Choice(th, i, caps, rank) ==
    [i |-> i, caps |-> caps, key |-> Append(th.key, rank)]

\* the threads that one thread becomes by matching element e
Succ(e, s, th) ==
    CASE e.k = "open" ->
           {Choice(th, th.i, [th.caps EXCEPT ![e.g] = <<th.i, th.i>>], 0)}
      [] e.k = "close" ->
           {Choice(th, th.i,
                   [th.caps EXCEPT ![e.g] = <<th.caps[e.g][1], th.i>>], 0)}
      [] e.k = "nla" ->
           IF MatchFrom(e.sub, 1, s, th.i, th.caps).ok THEN {}
           ELSE {Choice(th, th.i, th.caps, 0)}
      [] e.k = "qname" ->
           IF th.i <= Len(s) /\ IsWord(s[th.i])
           THEN {Choice(th, th.i + 1, th.caps, 1)}
                \cup (IF th.i + 2 <= Len(s) /\ s[th.i + 1] = "."
                         /\ IsWord(s[th.i + 2])
                      THEN {Choice(th, th.i + 3, th.caps, 0)} ELSE {})
           ELSE {}
      [] e.k = "run" ->
           LET most == RunLen(e, s, th.i)
           IN {Choice(th, th.i + len, th.caps,
                      IF e.greedy THEN most - len ELSE len - e.lo) :
                  len \in e.lo..most}

\* the threads after elements k.. of the pattern p
RECURSIVE Threads(_, _, _, _)
Threads(p, k, s, ths) ==
    IF ths = {} \/ k > Len(p) THEN ths
    ELSE Threads(p, k + 1, s, UNION {Succ(p[k], s, th) : th \in ths})

\* keys of the same length, in the order in which re tries them
Before(key1, key2) ==
    \E d \in 1..Len(key1) :
        /\ key1[d] < key2[d]
        /\ \A c \in 1..(d - 1) : key1[c] = key2[c]

\* elements k.. of pattern p against s from position i on
MatchFrom(p, k, s, i, caps) ==
    LET matched == Threads(p, k, s,
                           {[i |-> i, caps |-> caps, key |-> <<>>]})
    IN IF matched = {} THEN NoMatch
       ELSE LET found_first ==
                    CHOOSE th \in matched :
                        \A other \in matched :
                            other = th \/ Before(th.key, other.key)
            IN [ok |-> TRUE, end |-> found_first.i,
                caps |-> found_first.caps]

\* the match of the first alternative of a rule that matches at i
RECURSIVE MatchAlts(_, _, _, _)
MatchAlts(alts, a, s, i) ==
    IF a > Len(alts) THEN NoMatch
    ELSE LET ra == MatchFrom(alts[a], 1, s, i, NoCaps) IN
         IF ra.ok THEN ra ELSE MatchAlts(alts, a + 1, s, i)

\* m.group(g)
Group(s, m, g) == SubSeq(s, m.caps[g][1], m.caps[g][2] - 1)

\* re.search(pattern, s)
Search(alts, s) == \E i \in 1..Len(s) : MatchAlts(alts, 1, s, i).ok

\* ---- the rule sets, conversion_rules.py lines 10-91
\* _compile_function_patterns
FunctionRules ==
    <<"current_timestamp", "now", "filter", "json_cast",
      "max_business_date", "extract_subquery", "position">>

\* _compile_json_patterns
JsonRules ==
    <<"arrow_text", "arrow", "path_text", "path", "json_extract">>

\* _compile_datatype_patterns
DatatypeRules ==
    <<"cast_as", "cast_json_value", "cast_then_cast", "double_cast",
      "cast_type">>

NowAtTimeZone ==
    <<"NOW", "(", ")", " ", "AT", " ", "TIME", " ", "ZONE", " ",
      "'", "Asia", "/", "Kolkata", "'">>

MaxBusinessDateNote ==
    <<"/*", " ", "REPLACE", ":", " ", "MAX_BUSINESS_DATE", "(", ")", " ",
      "with", " ", "actual", " ", "date", "/", "timestamp", " ", "column",
      " ", "*/", Newline, "MAX", "(", "business_date", ")">>

\* JSON_VALUE(JSON_POINTER_EXTRACT_TEXT(col, '/key'))
JsonValue(col, key) ==
    <<"JSON_VALUE", "(", "JSON_POINTER_EXTRACT_TEXT", "(">> \o col
      \o <<",", " ", "'", "/">> \o key \o <<"'", ")", ")">>

\* str.replace(',', '/') on a key path
SlashPath(key) == [i \in 1..Len(key) |-> IF key[i] = "," THEN "/" ELSE key[i]]

\* str.upper() on a word
UpperWord(t) ==
    CASE t = "int" -> "INT"
      [] t = "integer" -> "INTEGER"
      [] t = "text" -> "TEXT"
      [] t = "date" -> "DATE"
      [] t = "timestamp" -> "TIMESTAMP"
      [] t = "timestamptz" -> "TIMESTAMPTZ"
      [] t = "interval" -> "INTERVAL"
      [] t = "jsonb" -> "JSONB"
      [] t = "json" -> "JSON"
      [] OTHER -> t

\* The type alternation of the cast rule (line 57) matches the first of
\* varchar, text, integer, int, bigint, decimal, numeric, real, double,
\* float, boolean, date, timestamp, timestamptz that starts the word after
\* the :: (under IGNORECASE), and _map_datatype (lines 93-111) replaces
\* that start; the rest of the word stays. CastTypeWord(t) is the word
\* left in the text, or "" when no alternative starts t.
CastTypeWord(t) ==
    CASE FoldWord(t) = "varchar" -> "TEXT"
      [] FoldWord(t) = "text" -> "TEXT"
      [] FoldWord(t) = "integer" -> "INT"
      [] FoldWord(t) = "int" -> "INT"
      [] FoldWord(t) = "bigint" -> "BIGINT"
      [] FoldWord(t) = "numeric" -> "DECIMAL"
      [] FoldWord(t) = "float" -> "DOUBLE"
      [] FoldWord(t) = "date" -> "DATE"
      [] FoldWord(t) = "timestamp" -> "TIMESTAMP"
      [] t = "timestamptz" -> "TIMESTAMPtz"
      [] t = "TIMESTAMPTZ" -> "TIMESTAMPTZ"
      [] t = "interval" -> "INTerval"
      [] OTHER -> ""

\* the words the type alternation matches a start of
CastTypeWords ==
    {"varchar", "text", "integer", "int", "bigint", "numeric", "float",
     "date", "timestamp", "timestamptz", "interval"}

Quote == [k |-> "run", cls |-> "exact", set |-> {"'", "\""}, lo |-> 1,
          hi |-> 1, greedy |-> TRUE]

\* column, operator, quoted key
ArrowPattern(op) ==
    << <<Open(1), QName, Close(1), S0, X(op), S0, Quote,
         Open(2), RunNot({"'", "\""}), Close(2), Quote>> >>

\* column, operator, '{key,key}'
PathPattern(op) ==
    << <<Open(1), QName, Close(1), S0, X(op), S0, X("'"), X("{"),
         Open(2), RunNot({"}"}), Close(2), X("}"), X("'")>> >>

\* the alternatives of the pattern of a rule
RulePattern(rule) ==
    CASE rule = "current_timestamp" -> << <<T({"current_timestamp"})>> >>
      [] rule = "now" ->
           << <<T({"now"}), X("("), X(")"),
                NotAhead(<<S1, T({"at"}), S1, T({"time"}), S1, T({"zone"})>>)>> >>
      [] rule = "filter" ->
           << <<Open(1), W, Close(1), S0, X("("), S0,
                Open(2), RunNot({")"}), Close(2), S0, X(")"), S0,
                T({"filter"}), S0, X("("), S0, T({"where"}), S1,
                Open(3), RunNot({")"}), Close(3), S0, X(")")>> >>
      [] rule = "json_cast" ->
           << <<Open(1), QName, Close(1), S0, X("::"), S0, T({"json"})>> >>
      [] rule = "max_business_date" ->
           << <<T({"max_business_date"}), S0, X("("), S0, X(")")>> >>
      [] rule = "extract_subquery" ->
           << <<T({"extract"}), S0, X("("), S0, Open(1), W, Close(1), S1,
                T({"from"}), S0, X("("), S0,
                Open(2), T({"select"}), S1, RunNot({")"}), Close(2),
                S0, X(")"), S0, X(")")>> >>
      [] rule = "position" ->
           << <<T({"position"}), X("("), S0, X("'"),
                Open(1), RunNot({"'"}), Close(1), X("'"), S1, T({"in"}), S1,
                Open(2), LazyDot, Close(2), S0, X(")")>> >>
      [] rule = "arrow_text" -> ArrowPattern("->>")
      [] rule = "arrow" -> ArrowPattern("->")
      [] rule = "path_text" -> PathPattern("#>>")
      [] rule = "path" -> PathPattern("#>")
      [] rule = "json_extract" ->
           << <<Open(1), W, Close(1), X("::"), X("JSON_EXTRACT"), X("("),
                X("json"), X(","), S0, X("'"), X("$"), X("."),
                Open(2), RunNot({"'"}), Close(2), X("'"), X(")")>> >>
      [] rule = "cast_as" ->
           << <<T({"cast"}), X("("), S0, Open(1), LazyDot, Close(1), S1,
                T({"as"}), S1, Open(2), W, Close(2), S0, X(")")>> >>
      [] rule = "cast_json_value" ->
           << <<T({"cast"}), X("("), S0, Open(1), T({"json_value"}), X("("),
                RunNot({")"}), X(")"), Close(1), S0, X(")")>> >>
      [] rule = "cast_then_cast" ->
           << <<T({"cast"}), X("("), S0, Open(1), RunNot({")"}), Close(1),
                S0, X(")"), X("::"), Open(2), W, Close(2)>> >>
      [] rule = "double_cast" ->
           << <<X("("), Open(1), RunNot({")"}), Close(1), X("::"),
                Open(2), W, Close(2), X(")"), X("::"), Open(3), W, Close(3)>> >>
      [] rule = "cast_type" ->
           << <<Open(1), X("("), RunNot({")"}), X(")"), Close(1), X("::"),
                Open(2), T(CastTypeWords), Close(2)>>,
              <<Open(1), WordsDots, Close(1), X("::"),
                Open(2), T(CastTypeWords), Close(2)>> >>

\* the replacement of a match m of a rule in s
RuleOutput(rule, s, m) ==
    LET g1 == Group(s, m, 1)
        g2 == Group(s, m, 2)
        g3 == Group(s, m, 3)
    IN
    CASE rule = "current_timestamp" -> <<"NOW", "(", ")">>
      [] rule = "now" -> NowAtTimeZone
      [] rule = "filter" ->
           g1 \o <<"(", "CASE", " ", "WHEN", " ">> \o g3
              \o <<" ", "THEN", " ">> \o g2
              \o <<" ", "ELSE", " ", "0", " ", "END", ")">>
      [] rule = "json_cast" -> g1
      [] rule = "max_business_date" -> MaxBusinessDateNote
      [] rule = "extract_subquery" ->
           <<"/*", " ", "REFACTOR", " ", "NEEDED", ":", " ", "Move", " ",
             "to", " ", "derived", " ", "subquery", " ", "*/", Newline,
             "EXTRACT", "(">> \o g1 \o <<" ", "FROM", " ", "(">> \o g2
             \o <<")", ")", Newline, "/*", " ", "Should", " ", "be", ":",
                  " ", "EXTRACT", "(">> \o g1
             \o <<" ", "FROM", " ", "alias", ".", "column", ")", " ",
                  "FROM", " ", "(">> \o g2
             \o <<")", " ", "AS", " ", "alias", " ", "*/">>
      [] rule = "position" ->
           <<"STRPOS", "(">> \o g2 \o <<",", " ", "'">> \o g1 \o <<"'", ")">>
      [] rule \in {"arrow_text", "arrow", "json_extract"} -> JsonValue(g1, g2)
      [] rule \in {"path_text", "path"} -> JsonValue(g1, SlashPath(g2))
      [] rule = "cast_as" -> g1 \o <<"::", UpperWord(g2[1])>>
      [] rule = "cast_json_value" -> g1
      [] rule = "cast_then_cast" ->
           <<"(">> \o g1 \o <<")", "::", UpperWord(g2[1])>>
      [] rule = "double_cast" ->
           <<"(">> \o g1 \o <<")", "::", UpperWord(g3[1])>>
      [] rule = "cast_type" -> g1 \o <<"::", CastTypeWord(g2[1])>>

\* pattern.sub(replacement, s): the matches from left to right, each search
\* resuming where the previous match ended
RECURSIVE SubFrom(_, _, _)
SubFrom(rule, s, i) ==
    LET sub_starts == {sub_j \in i..Len(s) : MatchAlts(RulePattern(rule), 1, s, sub_j).ok}
    IN IF sub_starts = {} THEN SubSeq(s, i, Len(s))
       ELSE LET sub_j == Least(sub_starts)
                sub_m == MatchAlts(RulePattern(rule), 1, s, sub_j)
            IN SubSeq(s, i, sub_j - 1) \o RuleOutput(rule, s, sub_m)
                  \o SubFrom(rule, s, sub_m.end)

Sub(rule, s) == SubFrom(rule, s, 1)

RECURSIVE ApplyRules(_, _, _)
ApplyRules(rules, k, s) ==
    IF k > Len(rules) \/ s = <<>> THEN s
    ELSE ApplyRules(rules, k + 1, Sub(rules[k], s))

\* apply_patterns lines 113-131: the rules of the set of the given type,
\* each on the result of the one before; another type leaves the text
apply_patterns(sql, pattern_type) ==
    CASE pattern_type = "json" -> ApplyRules(JsonRules, 1, sql)
      [] pattern_type = "datatypes" -> ApplyRules(DatatypeRules, 1, sql)
      [] pattern_type = "functions" -> ApplyRules(FunctionRules, 1, sql)
      [] OTHER -> sql

\* ---- the texts given to the rule sets and to convert
FragNow == <<"NOW", "(", ")">>
FragNowZone ==
    <<"now", "(", ")", " ", "at", " ", "time", " ", "zone", " ", "'", "UTC", "'">>
FragCurrent == <<"CURRENT_TIMESTAMP">>
FragFilter ==
    <<"SUM", "(", "x", ")", " ", "FILTER", " ", "(", "WHERE", " ", "y", ")">>
FragJsonArrow == <<"d", "::", "json", "->>", "'", "k", "'">>
FragJsonbArrow == <<"d", "::", "jsonb", "->>", "'", "k", "'">>
FragJsonTwice == <<"c", "::", "json", "::", "json">>
FragMaxBusiness == <<"MAX_BUSINESS_DATE", "(", ")">>
FragExtract ==
    <<"EXTRACT", "(", "MONTH", " ", "FROM", " ", "(", "SELECT", " ", "d", " ",
      "FROM", " ", "t", ")", ")">>
FragPosition == <<"position", "(", "'", "a", "'", " ", "in", " ", "b", ")">>
FragCast == <<"CAST", "(", "a", " ", "AS", " ", "int", ")">>
FragPlain == <<"x">>

Fragments ==
    {FragNow, FragNowZone, FragCurrent, FragFilter, FragJsonArrow,
     FragJsonbArrow, FragJsonTwice, FragMaxBusiness, FragExtract,
     FragPosition, FragCast, FragPlain}

\* SELECT f1, f2
SelectList(f1, f2) == <<"SELECT", " ">> \o f1 \o <<",", " ">> \o f2

RuleInputs == {SelectList(f1, f2) : f1 \in Fragments, f2 \in Fragments}

PatternTypes == {"functions", "json", "datatypes"}

\* ---- one rule set applied to a text, and again to its own output
VARIABLES
    ru_pc,      \* "ready", "once", "twice"
    ru_type,    \* the pattern_type argument
    ru_sql,     \* the sql argument of the first call
    ru_once,    \* what the first call returned
    ru_twice    \* what the call on ru_once returned

ruVars == <<ru_pc, ru_type, ru_sql, ru_once, ru_twice>>

RulesInit ==
    /\ ru_pc = "ready"
    /\ ru_type \in PatternTypes
    /\ ru_sql \in RuleInputs
    /\ ru_once = <<>>
    /\ ru_twice = <<>>

\* apply_patterns(ru_sql, ru_type)
ApplyOnce ==
    /\ ru_pc = "ready"
    /\ ru_once' = apply_patterns(ru_sql, ru_type)
    /\ ru_pc' = "once"
    /\ UNCHANGED <<ru_type, ru_sql, ru_twice>>

\* apply_patterns on the text the first call returned
ApplyAgain ==
    /\ ru_pc = "once"
    /\ ru_twice' = apply_patterns(ru_once, ru_type)
    /\ ru_pc' = "twice"
    /\ UNCHANGED <<ru_type, ru_sql, ru_once>>

RulesAtRest ==
    /\ ru_pc = "idle"
    /\ ru_type = "functions"
    /\ ru_sql = <<>>
    /\ ru_once = <<>>
    /\ ru_twice = <<>>

\* ---- hoisting of scalar subqueries, query_converter.py lines 246-369
\* str.strip(), str.rstrip() and str.lstrip() on a text
RECURSIVE LStripSql(_)
LStripSql(s) ==
    IF s # <<>> /\ IsSpace(Head(s)) THEN LStripSql(Tail(s)) ELSE s

RECURSIVE RStripSql(_)
RStripSql(s) ==
    IF s # <<>> /\ IsSpace(s[Len(s)])
    THEN RStripSql(SubSeq(s, 1, Len(s) - 1)) ELSE s

StripSql(s) == LStripSql(RStripSql(s))

\* line 258
HoistPattern ==
    << <<T({"extract"}), S0, X("("), S0, Open(1), T({"month", "year"}),
         Close(1), S1, T({"from"}), S0, X("("), S0, T({"select"}), S1,
         T({"max"}), S0, X("("), S0, Open(2), LazyNot({")"}), Close(2), S0,
         X(")"), S1, T({"from"}), S1, Open(3), LazyNot({")"}), Close(3), S0,
         X(")"), S0, X(")")>> >>

\* pattern.finditer(s): the matches from left to right
RECURSIVE FindAll(_, _, _)
FindAll(alts, s, i) ==
    LET find_starts == {find_j \in i..Len(s) : MatchAlts(alts, 1, s, find_j).ok}
    IN IF find_starts = {} THEN <<>>
       ELSE LET find_j == Least(find_starts)
                find_m == MatchAlts(alts, 1, s, find_j)
            IN <<[start |-> find_j, end |-> find_m.end, caps |-> find_m.caps]>>
                  \o FindAll(alts, s, find_m.end)

\* the words whose lower-case form contains agreementdate
AgreementDateWords == {"agreementdate", "AgreementDate", "AGREEMENTDATE"}

\* lines 265-270
build_alias(expr) ==
    IF \E i \in 1..Len(expr) : expr[i] \in AgreementDateWords
    THEN "max_agreement_date" ELSE "max_value"

\* lines 272-279: the alias, the aliases in use and the counter afterwards
RECURSIVE UniqueFrom(_, _, _, _)
UniqueFrom(alias_base, alias, used_aliases, alias_counter) ==
    IF \E i \in 1..Len(used_aliases) : used_aliases[i] = alias
    THEN UniqueFrom(alias_base, alias_base \o "_" \o ToString(alias_counter),
                    used_aliases, alias_counter + 1)
    ELSE [alias |-> alias, used_aliases |-> Append(used_aliases, alias),
          alias_counter |-> alias_counter]

ensure_unique_alias(alias_base, used_aliases, alias_counter) ==
    UniqueFrom(alias_base, alias_base, used_aliases, alias_counter)

InnerSelect(expr, table_part) ==
    <<"SELECT", " ", "MAX", "(">> \o expr \o <<")", " ", "FROM", " ">>
        \o table_part

DerivedSql(expr, col_alias, table_part, sub_alias) ==
    <<"(", "SELECT", " ", "MAX", "(">> \o expr
        \o <<")", " ", "AS", " ", col_alias, " ", "FROM", " ">> \o table_part
        \o <<")", " ", "AS", " ", sub_alias>>

\* the bookkeeping of the loop of lines 288-306 before the first match
HoistStart ==
    [alias_counter |-> 1, used_aliases |-> <<>>, seen |-> <<>>,
     subqueries_to_add |-> <<>>, replacements |-> <<>>]

\* variant of the loop body that never reuses the binding of a subquery
HoistMatch_nodedup(s, m, st) ==
    LET nd_part == Group(s, m, 1)
        nd_expr == StripSql(Group(s, m, 2))
        nd_table == StripSql(Group(s, m, 3))
        nd_col == ensure_unique_alias(build_alias(nd_expr), st.used_aliases,
                                      st.alias_counter)
        nd_old == SubSeq(s, m.start, m.end - 1)
        nd_new == <<"EXTRACT", "(">> \o nd_part
                     \o <<" ", "FROM", " ", "sub", ".", nd_col.alias, ")">>
    IN [alias_counter |-> nd_col.alias_counter,
        used_aliases |-> nd_col.used_aliases,
        seen |-> Append(st.seen,
                    [inner |-> InnerSelect(nd_expr, nd_table),
                     sub_alias |-> "sub", col_alias |-> nd_col.alias]),
        subqueries_to_add |-> Append(st.subqueries_to_add,
                    DerivedSql(nd_expr, nd_col.alias, nd_table, "sub")),
        replacements |-> Append(st.replacements,
                    [old |-> nd_old, new |-> nd_new])]

\* lines 288-306: the body of the loop for the match m, on bookkeeping st
HoistMatch(s, m, st) ==
    LET part == Group(s, m, 1)
        expr == StripSql(Group(s, m, 2))
        table_part == StripSql(Group(s, m, 3))
        inner_select == InnerSelect(expr, table_part)
        known == {i \in 1..Len(st.seen) : st.seen[i].inner = inner_select}
        col == ensure_unique_alias(build_alias(expr), st.used_aliases,
                                   st.alias_counter)
        subIsFree == \A i \in 1..Len(col.used_aliases) :
                        col.used_aliases[i] # "sub"
        sub == IF subIsFree
               THEN [alias |-> "sub", used_aliases |-> col.used_aliases,
                     alias_counter |-> col.alias_counter]
               ELSE ensure_unique_alias("sub", col.used_aliases,
                                        col.alias_counter)
        st2 == IF known # {} THEN st
               ELSE [alias_counter |-> sub.alias_counter,
                     used_aliases |-> sub.used_aliases,
                     seen |-> Append(st.seen,
                                [inner |-> inner_select, sub_alias |-> sub.alias,
                                 col_alias |-> col.alias]),
                     subqueries_to_add |-> Append(st.subqueries_to_add,
                                DerivedSql(expr, col.alias, table_part,
                                           sub.alias)),
                     replacements |-> st.replacements]
        binding == st2.seen[CHOOSE i \in 1..Len(st2.seen) :
                               st2.seen[i].inner = inner_select]
        full_old == SubSeq(s, m.start, m.end - 1)
        full_new == <<"EXTRACT", "(">> \o part
                       \o <<" ", "FROM", " ", binding.sub_alias, ".",
                            binding.col_alias, ")">>
    IN [st2 EXCEPT !.replacements =
            Append(st2.replacements, [old |-> full_old, new |-> full_new])]

RECURSIVE HoistMatches(_, _, _, _)
HoistMatches(s, matches, k, st) ==
    IF k > Len(matches) THEN st
    ELSE HoistMatches(s, matches, k + 1, HoistMatch(s, matches[k], st))

\* str.replace(old, new): every occurrence, from left to right
RECURSIVE ReplaceAll(_, _, _, _)
ReplaceAll(s, old, new, i) ==
    LET found == {j \in i..(Len(s) - Len(old) + 1) :
                  SubSeq(s, j, j + Len(old) - 1) = old}
    IN IF found = {} THEN SubSeq(s, i, Len(s))
       ELSE LET first == Least(found) IN
            SubSeq(s, i, first - 1) \o new
               \o ReplaceAll(s, old, new, first + Len(old))

\* lines 309-311
RECURSIVE ApplyReplacements(_, _, _)
ApplyReplacements(s, replacements, k) ==
    IF k > Len(replacements) \/ s = <<>> THEN s
    ELSE ApplyReplacements(
            ReplaceAll(s, replacements[k].old, replacements[k].new, 1),
            replacements, k + 1)

\* ", ".join(...)
RECURSIVE JoinComma(_)
JoinComma(items) ==
    IF items = <<>> THEN <<>>
    ELSE IF Len(items) = 1 THEN items[1]
    ELSE items[1] \o <<",", " ">> \o JoinComma(Tail(items))

ExtractUnits == {"month", "year", "day", "hour", "minute", "second"}

\* line 323 on the text before a FROM, stripped
EndsInExtractUnit(before) ==
    \E i \in 1..Len(before) :
        LET tail == MatchFrom(<<T({"extract"}), S0, X("("), S0,
                                T(ExtractUnits), S0>>, 1, before, i, NoCaps)
        IN tail.ok /\ tail.end = Len(before) + 1

\* lines 319-325: the positions of the FROM words that are not the FROM
\* of an EXTRACT
MainFroms(s) ==
    {j \in 1..Len(s) :
        /\ FoldWord(s[j]) = "from"
        /\ ~EndsInExtractUnit(StripSql(SubSeq(s, 1, j - 1)))}

\* the patterns that end a clause, lines 336 and 355
ClauseEnds ==
    << << <<T({"where"})>> >>,
       << <<T({"group"}), S1, T({"by"})>> >>,
       << <<T({"order"}), S1, T({"by"})>> >>,
       << <<T({"limit"})>> >>,
       << <<T({"having"})>> >> >>

ClauseEndsOrSemicolon == Append(ClauseEnds, << <<X(";")>> >>)

\* variant of the boundary that ignores the clause keywords
Boundary_end(s, search_start, ends) == Len(s) + 1

\* lines 334-339: the first position from search_start on where one of
\* the patterns matches, or the position after the text
Boundary(s, search_start, ends) ==
    Least({Len(s) + 1} \cup
          {j \in search_start..Len(s) :
              \E k \in 1..Len(ends) : MatchAlts(ends[k], 1, s, j).ok})

NoSelectNote ==
    "Could not find SELECT clause to add FROM with derived subquery."

\* lines 313-367 on the text after the replacements
AddDerived(refactored, subqueries_to_add) ==
    LET subquery_clause == JoinComma(subqueries_to_add)
        from_matches == MainFroms(refactored)
        selects == {j \in 1..Len(refactored) :
                       FoldWord(refactored[j]) = "select"}
    IN
    IF subqueries_to_add = <<>> THEN [sql |-> refactored, notes |-> <<>>]
    ELSE IF from_matches # {}
    THEN LET boundary == Boundary(refactored, Least(from_matches) + 1,
                                  ClauseEnds)
             before_insert == RStripSql(SubSeq(refactored, 1, boundary - 1))
             after_insert ==
                 LStripSql(SubSeq(refactored, boundary, Len(refactored)))
             space_after == IF after_insert # <<>> /\ Head(after_insert) # Newline
                            THEN <<" ">> ELSE <<>>
         IN [sql |-> before_insert \o <<",", " ">> \o subquery_clause
                        \o space_after \o after_insert,
             notes |-> <<>>]
    ELSE IF selects # {}
    THEN LET select_boundary == Boundary(refactored, Least(selects) + 1,
                                  ClauseEndsOrSemicolon)
             select_part == RStripSql(SubSeq(refactored, 1, select_boundary - 1))
             rest_part ==
                 LStripSql(SubSeq(refactored, select_boundary, Len(refactored)))
             select_space_after ==
                 IF rest_part # <<>> /\ Head(rest_part) # Newline
                    /\ Head(rest_part) # ";"
                 THEN <<" ">> ELSE <<>>
         IN [sql |-> select_part \o <<" ", "FROM", " ">> \o subquery_clause
                        \o select_space_after \o rest_part,
             notes |-> <<>>]
    ELSE [sql |-> refactored, notes |-> <<NoSelectNote>>]

\* _refactor_extract_scalar_subqueries: the text and the notes
\* lines 308-369, with the replacements and the derived tables of st
RefactorWith(sql, st) ==
    AddDerived(ApplyReplacements(sql, st.replacements, 1),
               st.subqueries_to_add)

\* variant that reports a note when the pattern has no match
RefactorMatches_noted(sql, matches) ==
    IF matches = <<>> THEN [sql |-> sql, notes |-> <<NoSelectNote>>]
    ELSE RefactorWith(sql, HoistMatches(sql, matches, 1, HoistStart))

\* lines 282-306, with the matches of the pattern
RefactorMatches(sql, matches) ==
    IF matches = <<>> THEN [sql |-> sql, notes |-> <<>>]
    ELSE RefactorWith(sql, HoistMatches(sql, matches, 1, HoistStart))

refactor_extract_scalar_subqueries(sql) ==
    RefactorMatches(sql, FindAll(HoistPattern, sql, 1))

\* ---- warnings, conversion_rules.py lines 133-162
UnsupportedPatterns ==
    << [pat |-> << <<T({"cte"})>> >>,
        desc |-> "Common Table Expressions (WITH clauses)"],
       [pat |-> << <<T({"lateral"})>> >>, desc |-> "LATERAL joins"],
       [pat |-> << <<T({"tablesample"})>> >>, desc |-> "Table sampling"],
       [pat |-> << <<T({"inherits"})>> >>, desc |-> "Table inheritance"],
       [pat |-> << <<T({"except"})>> >>,
        desc |-> "EXCEPT operator (use LEFT JOIN instead)"],
       [pat |-> << <<T({"intersect"})>> >>, desc |-> "INTERSECT operator"],
       [pat |-> << <<X("$$"), RunNot0({"$", "$$"}), X("$$")>> >>,
        desc |-> "Dollar-quoted strings"],
       [pat |-> << <<T({"copy"})>> >>,
        desc |-> "COPY command (use Firebolt's COPY FROM instead)"],
       [pat |-> << <<T({"vacuum"})>> >>,
        desc |-> "VACUUM command (not needed in Firebolt)"],
       [pat |-> << <<T({"analyze"})>> >>,
        desc |-> "ANALYZE command (not needed in Firebolt)"],
       [pat |-> << <<T({"explain"}), S1, X("(")>> >>,
        desc |-> "Extended EXPLAIN options"],
       [pat |-> << <<T({"extract"}), S0, X("("), S0, W, S1, T({"from"}), S0,
                     X("("), S0, T({"select"}), S1>> >>,
        desc |-> "Scalar subquery inside EXTRACT() - refactor to derived subquery"],
       [pat |-> << <<X("::"), S0, T({"json"})>> >>,
        desc |-> "JSON casting (::json) - use TEXT storage in Firebolt instead"],
       [pat |-> << <<T({"filter"}), S0, X("("), S0, T({"where"}), S1>> >>,
        desc |-> "FILTER clause in aggregates - converted to CASE WHEN"],
       [pat |-> << <<X("->"), S0, X("'"), RunNot({"'"}), X("'")>> >>,
        desc |-> "JSON operator (->) - converted to JSON_VALUE(JSON_POINTER_EXTRACT_TEXT())"],
       [pat |-> << <<X("->>"), S0, X("'"), RunNot({"'"}), X("'")>> >>,
        desc |-> "JSON operator (->>) - converted to JSON_VALUE(JSON_POINTER_EXTRACT_TEXT())"] >>

RECURSIVE DetectFrom(_, _)
DetectFrom(sql, k) ==
    IF k > Len(UnsupportedPatterns) THEN <<>>
    ELSE (IF Search(UnsupportedPatterns[k].pat, sql)
          THEN <<"Converted PostgreSQL feature: " \o UnsupportedPatterns[k].desc>>
          ELSE <<>>)
         \o DetectFrom(sql, k + 1)

detect_unsupported_features(sql) == DetectFrom(sql, 1)

\* ---- the converter, query_converter.py lines 58-244
ExplainFunctions ==
    "Normalized function usage (FILTER -> CASE WHEN, NOW timezone, POSITION -> STRPOS, etc.)"
ExplainJson ==
    "Converted PostgreSQL JSON operators to Firebolt JSON_VALUE/JSON_POINTER_EXTRACT_TEXT"
ExplainDatatypes ==
    "Normalized data types and :: casting style for Firebolt"
ExplainHoist ==
    "Refactored scalar subquery inside EXTRACT() into derived subquery in FROM"
ExplainPolish == "Applied optional AI polish using OpenAI"
PolishSkipped == "AI polish skipped due to error: OpenAI conversion error"

\* _apply_rule_based_conversion on a str: the text returned and what it
\* appended to explanations and to warnings
\* lines 235-244, with the text after each stage
AfterHoist(sql, s1, s2, s3, hoisted) ==
    [sql |-> hoisted.sql,
     explanations |->
         (IF s1 # sql THEN <<ExplainFunctions>> ELSE <<>>)
         \o (IF s2 # s1 THEN <<ExplainJson>> ELSE <<>>)
         \o (IF s3 # s2 THEN <<ExplainDatatypes>> ELSE <<>>)
         \o (IF hoisted.sql # s3 THEN <<ExplainHoist>> ELSE <<>>),
     warnings |->
         (IF hoisted.sql # s3 THEN hoisted.notes ELSE <<>>)
         \o detect_unsupported_features(hoisted.sql)]

\* line 234
AfterDatatypes(sql, s1, s2, s3) ==
    AfterHoist(sql, s1, s2, s3, refactor_extract_scalar_subqueries(s3))

\* line 228
AfterJson(sql, s1, s2) ==
    AfterDatatypes(sql, s1, s2, apply_patterns(s2, "datatypes"))

\* line 222
AfterFunctions(sql, s1) == AfterJson(sql, s1, apply_patterns(s1, "json"))

\* variant of the rule-based conversion that runs the json rules before
\* the function rules
AfterJsonFirst(sql, j1) == AfterJson(sql, j1, apply_patterns(j1, "functions"))

apply_rule_based_conversion_jsonfirst(sql) ==
    AfterJsonFirst(sql, apply_patterns(sql, "json"))

apply_rule_based_conversion(sql) ==
    AfterFunctions(sql, apply_patterns(sql, "functions"))

\* the markdown fence (three backticks) of a model response
FenceToken == "<fence>"

\* lines 197-207: what _apply_ai_conversion returns for the content of a
\* response
clean_ai_response(content) ==
    LET converted == StripSql(content)
        opened == IF Len(converted) >= 2 /\ converted[1] = FenceToken
                     /\ converted[2] = "sql"
                  THEN SubSeq(converted, 3, Len(converted))
                  ELSE IF converted # <<>> /\ converted[1] = FenceToken
                  THEN Tail(converted)
                  ELSE converted
        closed == IF opened # <<>> /\ opened[Len(opened)] = FenceToken
                  THEN SubSeq(opened, 1, Len(opened) - 1)
                  ELSE opened
    IN StripSql(closed)

\* os.getenv('ENABLE_AI_POLISH', 'false').lower() in ('1', 'true', 'yes')
use_ai_polish(env) ==
    LET value == IF env = "unset" THEN "false" ELSE env
        lowered == CASE value = "TRUE" -> "true"
                     [] value = "Yes" -> "yes"
                     [] OTHER -> value
    IN lowered \in {"1", "true", "yes"}

\* the content of the response a model outcome stands for, given the text
\* sent to the model
ResponseContent(ai, sql) ==
    LET body == IF ai.echo THEN sql ELSE ai.text IN
    CASE ai.fence = "sql" ->
           <<FenceToken, "sql", Newline>> \o body \o <<Newline, FenceToken>>
      [] ai.fence = "plain" -> <<FenceToken>> \o body \o <<FenceToken>>
      [] OTHER -> body

NoAi == [kind |-> "none", echo |-> FALSE, fence |-> "none", text |-> <<>>]

\* variant of the polish step that lets the error of the model call out
polish_unguarded(rule, ai) ==
    IF ai.kind = "raises"
    THEN [kind |-> "raised", converted_sql |-> <<>>, warnings |-> <<>>,
          explanations |-> <<>>, method_used |-> "none"]
    ELSE LET ai_text == clean_ai_response(ResponseContent(ai, rule.sql)) IN
         IF ai_text # <<>>
         THEN [kind |-> "returned", converted_sql |-> ai_text,
               warnings |-> rule.warnings,
               explanations |-> Append(rule.explanations, ExplainPolish),
               method_used |-> "rule_based+ai"]
         ELSE [kind |-> "returned", converted_sql |-> rule.sql,
               warnings |-> rule.warnings, explanations |-> rule.explanations,
               method_used |-> "rule_based"]

\* lines 72-85: the polish step on the result rule of the rule-based
\* conversion, with the outcome ai of the model call
polish(rule, ai) ==
    IF ai.kind = "raises"
    THEN [kind |-> "returned", converted_sql |-> rule.sql,
          warnings |-> Append(rule.warnings, PolishSkipped),
          explanations |-> rule.explanations, method_used |-> "rule_based"]
    ELSE LET ai_sql == clean_ai_response(ResponseContent(ai, rule.sql)) IN
         IF ai_sql # <<>>
         THEN [kind |-> "returned", converted_sql |-> ai_sql,
               warnings |-> rule.warnings,
               explanations |-> Append(rule.explanations, ExplainPolish),
               method_used |-> "rule_based+ai"]
         ELSE [kind |-> "returned", converted_sql |-> rule.sql,
               warnings |-> rule.warnings, explanations |-> rule.explanations,
               method_used |-> "rule_based"]

\* lines 70-92, with the result of the rule-based conversion
AfterRules(rule_based, env, openai_available, ai) ==
    IF use_ai_polish(env) /\ openai_available
    THEN polish(rule_based, ai)
    ELSE [kind |-> "returned", converted_sql |-> rule_based.sql,
          warnings |-> rule_based.warnings,
          explanations |-> rule_based.explanations,
          method_used |-> "rule_based"]

\* variant of convert that hands the text to the rules as it came
convert_unstripped(query, env, openai_available, ai) ==
    IF query.kind = "bytes"
    THEN [kind |-> "raised", converted_sql |-> <<>>, warnings |-> <<>>,
          explanations |-> <<>>, method_used |-> "none"]
    ELSE AfterRules(apply_rule_based_conversion(query.text),
                    env, openai_available, ai)

\* convert, lines 58-92. A query that is not a str (bytes) passes strip()
\* and makes the first pattern.sub of the functions stage raise TypeError,
\* which nothing in convert catches.
convert(query, env, openai_available, ai) ==
    IF query.kind = "bytes"
    THEN [kind |-> "raised", converted_sql |-> <<>>, warnings |-> <<>>,
          explanations |-> <<>>, method_used |-> "none"]
    ELSE AfterRules(apply_rule_based_conversion(StripSql(query.text)),
                    env, openai_available, ai)

\* ---- calls of convert
FragHoist ==
    <<"EXTRACT", "(", "MONTH", " ", "FROM", " ", "(", "SELECT", " ", "MAX",
      "(", "d", ")", " ", "FROM", " ", "t", ")", ")">>

\* " SELECT f FROM u " for the fragments, and a query without any rule
ConvertTexts ==
    {<<" ", "SELECT", " ">> \o f \o <<" ", "FROM", " ", "u", " ">> :
        f \in Fragments \cup {FragHoist}}

ConvertQueries ==
    {[kind |-> "str", text |-> t] : t \in ConvertTexts}
    \cup {[kind |-> "bytes", text |-> <<"SELECT", " ", "1">>]}

EnvValues == {"unset", "TRUE", "1", "false"}

\* the outcomes of the model call: an error, an empty or blank content,
\* the text that was sent (bare or fenced), another text (bare or fenced)
AiOutcomes ==
    {[kind |-> "raises", echo |-> FALSE, fence |-> "none", text |-> <<>>],
     [kind |-> "content", echo |-> FALSE, fence |-> "none", text |-> <<>>],
     [kind |-> "content", echo |-> FALSE, fence |-> "plain", text |-> <<" ">>],
     [kind |-> "content", echo |-> TRUE, fence |-> "none", text |-> <<>>],
     [kind |-> "content", echo |-> TRUE, fence |-> "sql", text |-> <<>>],
     [kind |-> "content", echo |-> FALSE, fence |-> "none",
      text |-> <<"SELECT", " ", "1">>],
     [kind |-> "content", echo |-> FALSE, fence |-> "sql",
      text |-> <<"SELECT", " ", "1">>]}

NoResult ==
    [kind |-> "none", converted_sql |-> <<>>, warnings |-> <<>>,
     explanations |-> <<>>, method_used |-> "none"]

VARIABLES
    cv_pc,         \* "ready", "done"
    cv_query,      \* the postgresql_query argument
    cv_env,        \* the value of ENABLE_AI_POLISH
    cv_available,  \* self.openai_available
    cv_ai,         \* the outcome of the model call, NoAi when none was made
    cv_result      \* what convert returned, or that it raised

cvVars == <<cv_pc, cv_query, cv_env, cv_available, cv_ai, cv_result>>

ConvertInit ==
    /\ cv_pc = "ready"
    /\ cv_query \in ConvertQueries
    /\ cv_env \in EnvValues
    /\ cv_available \in BOOLEAN
    /\ cv_ai = NoAi
    /\ cv_result = NoResult

\* the model is called when the rule-based conversion returned, the flag
\* is on and a credential is configured
ModelIsCalled ==
    cv_query.kind = "str" /\ use_ai_polish(cv_env) /\ cv_available

\* one call of convert; ai is the outcome of the model call it makes
ConvertCall(ai) ==
    /\ cv_pc = "ready"
    /\ ai.kind = "none" <=> ~ModelIsCalled
    /\ cv_ai' = ai
    /\ cv_result' = convert(cv_query, cv_env, cv_available, ai)
    /\ cv_pc' = "done"
    /\ UNCHANGED <<cv_query, cv_env, cv_available>>

ConvertAtRest ==
    /\ cv_pc = "idle"
    /\ cv_query = [kind |-> "str", text |-> <<>>]
    /\ cv_env = "unset"
    /\ cv_available = FALSE
    /\ cv_ai = NoAi
    /\ cv_result = NoResult

\* ---- calls of _refactor_extract_scalar_subqueries
\* EXTRACT(unit FROM (SELECT MAX(col) FROM t))
HoistExtract(unit, col) ==
    <<"EXTRACT", "(", unit, " ", "FROM", " ", "(", "SELECT", " ", "MAX", "(",
      col, ")", " ", "FROM", " ", "t", ")", ")">>

\* the select lists of the texts given to the hoister
HoistHeads ==
    {<<"SELECT", " ">> \o HoistExtract("MONTH", "d"),
     <<"SELECT", " ">> \o HoistExtract("MONTH", "d") \o <<",", " ">>
         \o HoistExtract("YEAR", "d"),
     <<"SELECT", " ">> \o HoistExtract("MONTH", "d") \o <<",", " ">>
         \o HoistExtract("YEAR", "e"),
     <<"SELECT", " ">> \o HoistExtract("MONTH", "d") \o <<",", " ">>
         \o HoistExtract("YEAR", "e") \o <<",", " ">>
         \o HoistExtract("YEAR", "d"),
     <<"SELECT", " ", "x">>,
     <<"SELECT", " ", "EXTRACT", "(", "DAY", " ", "FROM", " ", "x", ")", ",",
       " ">> \o HoistExtract("MONTH", "d"),
     HoistExtract("MONTH", "d")}

\* what follows the select list
HoistTails ==
    {<<>>,
     <<" ", "FROM", " ", "u">>,
     <<" ", "FROM", " ", "u", " ", "WHERE", " ", "x">>,
     <<" ", "FROM", " ", "u", " ", "GROUP", " ", "BY", " ", "a">>,
     <<" ", "FROM", " ", "u", " ", "ORDER", " ", "BY", " ", "a", " ", "LIMIT",
       " ", "1">>,
     <<" ", "FROM", " ", "u", ";">>,
     <<" ", ";">>,
     <<" ", "WHERE", " ", "a">>,
     <<" ", "FROM", " ", "u", "\n", "WHERE", " ", "x">>,
     <<" ", "FROM", " ", "u", " ", "HAVING", " ", "x">>}

HoistTexts == {hd \o tl : hd \in HoistHeads, tl \in HoistTails}

NoHoist == [sql |-> <<>>, notes |-> <<>>]

VARIABLES
    ho_pc,      \* "start": before the call; "done": the call returned
    ho_sql,     \* the text given to the method
    ho_out      \* what the method returned: the text and the notes

hoVars == <<ho_pc, ho_sql, ho_out>>

HoistInit ==
    /\ ho_pc = "start"
    /\ ho_sql \in HoistTexts
    /\ ho_out = NoHoist

\* one call of _refactor_extract_scalar_subqueries(ho_sql)
HoistCall ==
    /\ ho_pc = "start"
    /\ ho_out' = refactor_extract_scalar_subqueries(ho_sql)
    /\ ho_pc' = "done"
    /\ UNCHANGED ho_sql

HoistAtRest ==
    /\ ho_pc = "idle"
    /\ ho_sql = <<>>
    /\ ho_out = NoHoist

\* ------------------------------------------------- manual-fix suggestions
\* _generate_manual_fix_suggestions applied to a log of failed attempts.
\* The error strings of the logs: each of the three triggers alone and in
\* either letter case, two triggers in one string, and no trigger.
SuggestErrors ==
    {<<"EXTRACT()", "requires", "DATE">>,
     <<"Syntax error", "near", "FROM">>,
     <<"unexpected", "::">>,
     <<"syntax error", "near", "::">>,
     <<"timeout">>}

SuggestQuery == <<"a">>

RECURSIVE FailureLogs(_)
FailureLogs(n) ==
    IF n = 0 THEN {<<>>}
    ELSE LET shorter == FailureLogs(n - 1) IN
         shorter \cup
         {Append(l, FailureRecord(Len(l) + 1, SuggestQuery, e)) :
             l \in {x \in shorter : Len(x) = n - 1}, e \in SuggestErrors}

VARIABLES
    sg_pc,       \* "ready", "done"
    sg_attempts, \* the log of failed attempts given to the function
    sg_out       \* the list the function returned

sgVars == <<sg_pc, sg_attempts, sg_out>>

SuggestInit ==
    /\ sg_pc = "ready"
    /\ sg_attempts \in FailureLogs(MaxLogLen)
    /\ sg_out = <<>>

\* live_tester.py line 143
GenerateSuggestions ==
    /\ sg_pc = "ready"
    /\ sg_out' \in generate_manual_fix_suggestions(sg_attempts)
    /\ sg_pc' = "done"
    /\ UNCHANGED sg_attempts

SuggestAtRest ==
    /\ sg_pc = "idle"
    /\ sg_attempts = <<>>
    /\ sg_out = <<>>

\* ------------------------------------------------------ error analyzer
\* FireboltErrorAnalyzer, error_analyzer.py. Messages and queries are
\* token sequences as above; the words the patterns look for occur in them
\* as whole words.

\* .* without DOTALL
Dots == RunNot0({Newline})
\* ['"]?
OptQuote ==
    [k |-> "run", cls |-> "exact", set |-> {"'", "\""}, lo |-> 0, hi |-> 1,
     greedy |-> TRUE]

\* the character U+2192 of the suggestion texts
Arrow == "=>"

\* __init__ lines 22-53: the pattern table, in the order of the dict
error_patterns ==
    << [pattern |-> <<X("function"), Dots, X("not"), X(" "), X("found")>>,
        type |-> "unknown_function",
        description |-> "Function not supported in Firebolt",
        auto_fix |-> TRUE],
       [pattern |-> <<X("syntax"), X(" "), X("error"), Dots, X("unexpected")>>,
        type |-> "syntax_error",
        description |-> "SQL syntax not supported in Firebolt",
        auto_fix |-> TRUE],
       [pattern |-> <<X("column"), Dots, X("does"), X(" "), X("not"), X(" "),
                      X("exist")>>,
        type |-> "column_error",
        description |-> "Column reference issue",
        auto_fix |-> FALSE],
       [pattern |-> <<X("table"), Dots, X("does"), X(" "), X("not"), X(" "),
                      X("exist")>>,
        type |-> "table_error",
        description |-> "Table reference issue",
        auto_fix |-> FALSE],
       [pattern |-> <<X("scalar"), X(" "), X("subquery")>>,
        type |-> "subquery_error",
        description |-> "Scalar subquery not supported in this context",
        auto_fix |-> TRUE],
       [pattern |-> <<X("filter"), Dots, X("not"), X(" "), X("supported")>>,
        type |-> "filter_error",
        description |-> "FILTER clause not supported",
        auto_fix |-> TRUE] >>

\* str.lower() and, on the names of function_mappings, str.upper()
LowerText(s) == [i \in 1..Len(s) |-> FoldWord(s[i])]

UpperName(t) ==
    CASE t = "position" -> "POSITION"
      [] t = "date_trunc" -> "DATE_TRUNC"
      [] t = "extract" -> "EXTRACT"
      [] t = "substring" -> "SUBSTRING"
      [] t = "length" -> "LENGTH"
      [] t = "current_timestamp" -> "CURRENT_TIMESTAMP"
      [] t = "generate_series" -> "GENERATE_SERIES"
      [] OTHER -> t

\* needle in text, for a needle that is one token
HasToken(text, needle) == \E i \in 1..Len(text) : text[i] = needle

\* lines 112-120
MappedFunctions ==
    {"position", "date_trunc", "extract", "substring", "length",
     "current_timestamp", "generate_series"}

GenerateSeriesAdvice ==
    <<"Use", " ", "VALUES", " ", "clause", " ", "or", " ", "recursive",
      " ", "CTE", " ", "alternative">>

function_mappings(name) ==
    CASE name = "position" -> <<"STRPOS">>
      [] name = "date_trunc" -> <<"DATE_TRUNC">>
      [] name = "extract" -> <<"EXTRACT">>
      [] name = "substring" -> <<"SUBSTR">>
      [] name = "length" -> <<"LEN">>
      [] name = "current_timestamp" -> <<"NOW", "(", ")">>
      [] name = "generate_series" -> GenerateSeriesAdvice

\* lines 127-132: re.sub of the whole word func_name under IGNORECASE by
\* the replacement, or by func_name itself when the replacement has a space
RECURSIVE ReplaceWord(_, _, _)
ReplaceWord(query, func_name, repl) ==
    IF query = <<>> THEN <<>>
    ELSE (IF FoldWord(Head(query)) = func_name THEN repl ELSE <<Head(query)>>)
            \o ReplaceWord(Tail(query), func_name, repl)

FunctionNamePattern ==
    << <<X("function"), S1, OptQuote, Open(1), W, Close(1), OptQuote, S1>> >>

\* lines 122-133, for the func_name of the message
FunctionFixes(query, func_name) ==
    IF func_name \notin MappedFunctions THEN <<>>
    ELSE << <<"Replace", " ", UpperName(func_name), " ", "with", " ">>
               \o function_mappings(func_name),
            <<"Suggested", " ", "query", ":", " ">>
               \o ReplaceWord(query, func_name,
                              IF HasToken(function_mappings(func_name), " ")
                              THEN <<func_name>>
                              ELSE function_mappings(func_name)) >>

FunctionFixesOf(query, error_lower, found) ==
    IF found = <<>> THEN <<>>
    ELSE FunctionFixes(query, error_lower[found[1].caps[1][1]])

\* _suggest_function_fixes lines 102-135
suggest_function_fixes(error, query) ==
    FunctionFixesOf(query, LowerText(error),
                    FindAll(FunctionNamePattern, LowerText(error), 1))

FixFilterClause ==
    <<"Convert", " ", "FILTER", " ", "clause", " ", "to", " ", "CASE", " ",
      "WHEN", " ", "expression">>

FixFilterExample ==
    <<"Example", ":", " ", "SUM", "(", "amount", ")", " ", "FILTER", " ",
      "(", "WHERE", " ", "active", ")", " ", Arrow, " ", "SUM", "(", "CASE",
      " ", "WHEN", " ", "active", " ", "THEN", " ", "amount", " ", "ELSE",
      " ", "0", " ", "END", ")">>

FixLateral ==
    <<"LATERAL", " ", "joins", " ", "not", " ", "supported", " ", "-", " ",
      "use", " ", "regular", " ", "JOIN", " ", "with", " ", "subquery">>

FixCasting ==
    <<"Convert", " ", "::", " ", "casting", " ", "to", " ", "CAST", "(",
      ")", " ", "function">>

FixCastingExample ==
    <<"Example", ":", " ", "column", "::", "text", " ", Arrow, " ", "CAST",
      "(", "column", " ", "AS", " ", "TEXT", ")">>

FixMoveSubquery ==
    <<"Move", " ", "scalar", " ", "subquery", " ", "from", " ", "EXTRACT",
      " ", "to", " ", "derived", " ", "table", " ", "in", " ", "FROM", " ",
      "clause">>

FixMoveExample ==
    <<"Example", ":", " ", "EXTRACT", "(", "YEAR", " ", "FROM", " ", "(",
      "SELECT", " ", "MAX", "(", "date", ")", ".", ".", ".", ")", ")", " ",
      Arrow, " ", "use", " ", "derived", " ", "subquery">>

FixRefactorSubqueries ==
    <<"Refactor", " ", "scalar", " ", "subqueries", " ", "to", " ", "use",
      " ", "JOINs", " ", "or", " ", "derived", " ", "tables">>

\* _suggest_syntax_fixes lines 137-152
suggest_syntax_fixes(error, query) ==
    (IF HasToken(LowerText(error), "filter")
     THEN <<FixFilterClause, FixFilterExample>> ELSE <<>>)
    \o (IF HasToken(LowerText(error), "lateral") THEN <<FixLateral>> ELSE <<>>)
    \o (IF HasToken(query, "::") /\ HasToken(LowerText(error), "casting")
        THEN <<FixCasting, FixCastingExample>> ELSE <<>>)

\* _suggest_subquery_fixes lines 154-163
suggest_subquery_fixes(error, query) ==
    (IF HasToken(LowerText(query), "extract") /\ HasToken(LowerText(query), "select")
     THEN <<FixMoveSubquery, FixMoveExample>> ELSE <<>>)
    \o <<FixRefactorSubqueries>>

\* line 170
filter_pattern ==
    << <<Open(1), W, Close(1), S0, X("("), RunNot({")"}), X(")"), S0,
         T({"filter"}), S0, X("("), S0, T({"where"}), S1,
         Open(2), RunNot({")"}), Close(2), X(")")>> >>

\* lines 174-175, for one match of filter_pattern
FilterFix(query, m) ==
    <<"Convert", " ">> \o Group(query, m, 1)
       \o <<" ", "FILTER", " ", Arrow, " ">> \o Group(query, m, 1)
       \o <<"(", "CASE", " ", "WHEN", " ">> \o Group(query, m, 2)
       \o <<" ", "THEN", " ", "column_name", " ", "ELSE", " ", "0",
            " ", "END", ")">>

RECURSIVE FilterFixes(_, _)
FilterFixes(query, found) ==
    IF found = <<>> THEN <<>>
    ELSE <<FilterFix(query, Head(found))>> \o FilterFixes(query, Tail(found))

\* _suggest_filter_fixes lines 165-177: one suggestion per FILTER clause
\* found in the query
suggest_filter_fixes(error, query) ==
    FilterFixes(query, FindAll(filter_pattern, query, 1))

\* the last pattern of the table that matches, in place of the first
RECURSIVE FirstPattern_last(_, _, _)
FirstPattern_last(patterns, k, error_lower) ==
    IF k > Len(patterns) THEN 0
    ELSE IF FirstPattern_last(patterns, k + 1, error_lower) # 0
         THEN FirstPattern_last(patterns, k + 1, error_lower)
    ELSE IF Search(<<patterns[k].pattern>>, error_lower) THEN k
    ELSE 0

\* lines 80-88: the first pattern of the table, in its order, that
\* re.search finds in the lower-cased message; 0 when there is none
RECURSIVE FirstPattern(_, _, _)
FirstPattern(patterns, k, error_lower) ==
    IF k > Len(patterns) THEN 0
    ELSE IF Search(<<patterns[k].pattern>>, error_lower) THEN k
    ELSE FirstPattern(patterns, k + 1, error_lower)

MatchedConfidence == 85

\* lines 91-98
fixes_for(error_type, error, query) ==
    CASE error_type = "unknown_function" -> suggest_function_fixes(error, query)
      [] error_type = "syntax_error" -> suggest_syntax_fixes(error, query)
      [] error_type = "subquery_error" -> suggest_subquery_fixes(error, query)
      [] error_type = "filter_error" -> suggest_filter_fixes(error, query)
      [] OTHER -> <<>>

\* analyze_error lines 55-100
analyze_error(error_message, query) ==
    LET an_k == FirstPattern(error_patterns, 1, LowerText(error_message))
        an_type == IF an_k = 0 THEN "unknown" ELSE error_patterns[an_k].type
    IN [error_type |-> an_type,
        description |-> IF an_k = 0 THEN "Unknown error"
                        ELSE error_patterns[an_k].description,
        can_auto_fix |-> IF an_k = 0 THEN FALSE ELSE error_patterns[an_k].auto_fix,
        suggested_fixes |-> fixes_for(an_type, error_message, query),
        confidence |-> IF an_k = 0 THEN 0 ELSE MatchedConfidence,
        error_message |-> error_message,
        error_code |-> NoneV]

\* ---- calls of analyze_error
MsgFunction == <<"Function", " ", "position", " ", "not", " ", "found">>
MsgFunctionBare == <<"function", " ", "not", " ", "found">>
MsgSeries == <<"function", " ", "generate_series", " ", "not", " ", "found">>
MsgSyntax == <<"syntax", " ", "error", " ", "at", " ", "unexpected", " ", "FILTER">>
MsgSyntaxCast ==
    <<"syntax", " ", "error", ":", " ", "unexpected", " ", "casting", " ",
      "in", " ", "LATERAL">>
MsgColumn == <<"Column", " ", "c", " ", "does", " ", "not", " ", "exist">>
MsgTable == <<"table", " ", "t", " ", "does", " ", "not", " ", "exist">>
MsgSubquery == <<"Scalar", " ", "subquery", " ", "in", " ", "EXTRACT">>
MsgFilter == <<"FILTER", " ", "clause", " ", "is", " ", "not", " ", "supported">>
MsgTimeout == <<"timeout">>
MsgTwoLines == <<"function", Newline, "not", " ", "found">>
MsgReversed == <<"not", " ", "found", " ", "function">>

MessageParts ==
    {MsgFunction, MsgFunctionBare, MsgSeries, MsgSyntax, MsgSyntaxCast,
     MsgColumn, MsgTable, MsgSubquery, MsgFilter, MsgTimeout, MsgTwoLines,
     MsgReversed}

\* one part, or two parts in either order behind one another
AnalyzerMessages ==
    MessageParts \cup {a \o <<":", " ">> \o b : a \in MessageParts, b \in MessageParts}

QueryPlain == <<"SELECT", " ", "1">>
QueryFilter ==
    <<"SELECT", " ", "SUM", "(", "x", ")", " ", "FILTER", " ", "(",
      "WHERE", " ", "a", ")", " ", "FROM", " ", "t">>
QueryExtract ==
    <<"SELECT", " ", "EXTRACT", "(", "MONTH", " ", "FROM", " ", "(",
      "SELECT", " ", "MAX", "(", "d", ")", " ", "FROM", " ", "t", ")", ")",
      " ", "FROM", " ", "u">>
QueryPosition ==
    <<"SELECT", " ", "POSITION", "(", "'", "a", "'", " ", "IN", " ", "b",
      ")", ",", " ", "x", "::", "text">>

AnalyzerQueries == {QueryPlain, QueryFilter, QueryExtract, QueryPosition}

NoAnalysis == [error_type |-> "none"]

VARIABLES an_pc, an_message, an_query, an_first, an_second

anVars == <<an_pc, an_message, an_query, an_first, an_second>>

AnalyzeInit ==
    /\ an_pc = "ready"
    /\ an_message \in AnalyzerMessages
    /\ an_query \in AnalyzerQueries
    /\ an_first = NoAnalysis
    /\ an_second = NoAnalysis

\* a call of analyze_error
AnalyzeOnce ==
    /\ an_pc = "ready"
    /\ an_first' = analyze_error(an_message, an_query)
    /\ an_pc' = "once"
    /\ UNCHANGED <<an_message, an_query, an_second>>

\* another call with the same message and query on the same analyzer
AnalyzeAgain ==
    /\ an_pc = "once"
    /\ an_second' = analyze_error(an_message, an_query)
    /\ an_pc' = "twice"
    /\ UNCHANGED <<an_message, an_query, an_first>>

\* analyze_error is not called
AnalyzeAtRest ==
    /\ an_pc = "idle"
    /\ an_message = <<>>
    /\ an_query = <<>>
    /\ an_first = NoAnalysis
    /\ an_second = NoAnalysis

\* ------------------------------------- instances sharing one process
\* Converters and correction loops constructed in one interpreter. What the
\* process holds for all of them: the environment (os.environ) and the
\* attribute api_key of the module openai.
Instances == {1, 2}
ModelKeys == {"k1", "k2"}
EnvKey == "k0"

\* longest log of convert and _get_correction calls
MaxCalls == 2

NoInstance == [made |-> FALSE, openai_api_key |-> NoneV, openai_available |-> FALSE]

VARIABLES os_environ, openai_importable, openai_module_key, converters,
          testers, call_log

inVars ==
    <<os_environ, openai_importable, openai_module_key, converters, testers,
      call_log>>

ProcessInit ==
    /\ os_environ \in
          [ENABLE_AI_POLISH : {"unset"}, OPENAI_API_KEY : {NoneV, EnvKey}]
    /\ openai_importable \in BOOLEAN
    /\ openai_module_key = NoneV
    /\ converters = [i \in Instances |-> NoInstance]
    /\ testers = [i \in Instances |-> NoInstance]
    /\ call_log = <<>>

\* cli.py line 50, streamlit_app.py lines 133 and 269: the application
\* writes the polish flag into the environment of the process
SetPolishFlag(value) ==
    /\ os_environ.ENABLE_AI_POLISH # value
    /\ os_environ' = [os_environ EXCEPT !.ENABLE_AI_POLISH = value]
    /\ UNCHANGED <<openai_importable, openai_module_key, converters, testers,
                   call_log>>

\* openai_api_key or os.getenv('OPENAI_API_KEY')
ConfiguredKey(arg) == IF arg # NoneV THEN arg ELSE os_environ.OPENAI_API_KEY

\* PostgreSQLToFireboltConverter.__init__, query_converter.py lines 13-36
NewConverter(i, arg) ==
    /\ ~converters[i].made
    /\ converters' =
          [converters EXCEPT ![i] =
              [made |-> TRUE,
               openai_api_key |-> ConfiguredKey(arg),
               openai_available |->
                  ConfiguredKey(arg) # NoneV /\ openai_importable]]
    /\ openai_module_key' =
          IF ConfiguredKey(arg) # NoneV /\ openai_importable
          THEN ConfiguredKey(arg) ELSE openai_module_key
    /\ UNCHANGED <<os_environ, openai_importable, testers, call_log>>

\* LiveQueryTester.__init__, live_tester.py lines 27-47
NewTester(j, arg) ==
    /\ ~testers[j].made
    /\ testers' =
          [testers EXCEPT ![j] =
              [made |-> TRUE,
               openai_api_key |-> ConfiguredKey(arg),
               openai_available |->
                  ConfiguredKey(arg) # NoneV /\ openai_importable]]
    /\ openai_module_key' =
          IF ConfiguredKey(arg) # NoneV /\ openai_importable
          THEN ConfiguredKey(arg) ELSE openai_module_key
    /\ UNCHANGED <<os_environ, openai_importable, converters, call_log>>

\* convert, query_converter.py lines 70-85 with _apply_ai_conversion lines
\* 94-167: whether the polish step is taken, and the key the module openai
\* holds when openai.chat.completions.create is called
ConverterConvert(i) ==
    /\ converters[i].made
    /\ Len(call_log) < MaxCalls
    /\ LET takes_polish == use_ai_polish(os_environ.ENABLE_AI_POLISH)
                        /\ converters[i].openai_available
       IN call_log' =
             Append(call_log,
                    [kind |-> "convert", instance |-> i,
                     configured |-> converters[i].openai_api_key,
                     called |-> takes_polish,
                     credential |-> IF takes_polish THEN openai_module_key ELSE NoneV])
    /\ UNCHANGED <<os_environ, openai_importable, openai_module_key, converters,
                   testers>>

\* _get_correction, live_tester.py lines 146-206: without a key it returns
\* None; otherwise it imports openai, assigns its own key to openai.api_key
\* and calls openai.chat.completions.create
TesterGetCorrection(j) ==
    /\ testers[j].made
    /\ Len(call_log) < MaxCalls
    /\ LET calls_model == testers[j].openai_api_key # NoneV /\ openai_importable
       IN /\ openai_module_key' =
                IF calls_model THEN testers[j].openai_api_key
                ELSE openai_module_key
          /\ call_log' =
                Append(call_log,
                       [kind |-> "repair", instance |-> j,
                        configured |-> testers[j].openai_api_key,
                        called |-> calls_model,
                        credential |-> IF calls_model THEN openai_module_key'
                                       ELSE NoneV])
    /\ UNCHANGED <<os_environ, openai_importable, converters, testers>>

\* no converter or tester was constructed
ProcessAtRest ==
    /\ os_environ = [ENABLE_AI_POLISH |-> "unset", OPENAI_API_KEY |-> NoneV]
    /\ openai_importable = FALSE
    /\ openai_module_key = NoneV
    /\ converters = [i \in Instances |-> NoInstance]
    /\ testers = [i \in Instances |-> NoInstance]
    /\ call_log = <<>>

\* ------------------------------------------------------- specifications
\* the variables of the specifications of single functions
fnVars == <<sgVars, ruVars, cvVars, hoVars, anVars, inVars>>

FnAtRest ==
    /\ SuggestAtRest /\ RulesAtRest /\ ConvertAtRest /\ HoistAtRest
    /\ AnalyzeAtRest /\ ProcessAtRest

vars == <<loopVars, gwVars, concVars, fnVars>>

\* a gateway that no operation touches, for the runs of the loop
GwAtRest ==
    /\ creds = NoArgs
    /\ original_credentials = NoArgs
    /\ connection = NoConnection
    /\ gw_pc = "idle"
    /\ gw_event = NoEvent

\* a correction loop that never starts, for the runs of the gateway
LoopAtRest ==
    /\ pc = "idle"
    /\ postgresql_query = <<>>
    /\ max_correction_attempts = 0
    /\ openai_api_key = FALSE
    /\ converted_query = <<>>
    /\ attempt = 0
    /\ attempts = <<>>
    /\ error_history = [m \in AllErrorMsgs |-> <<>>]
    /\ report = NoReport
    /\ convert_calls = 0
    /\ executed = <<>>
    /\ repair_requests = <<>>
    /\ correction = NoCorrection

\* what a step of the loop, of the gateway, of the concurrent callers
\* leaves alone
outsideLoop == <<gwVars, concVars, fnVars>>
outsideGw == <<loopVars, concVars, fnVars>>
outsideConc == <<loopVars, fnVars>>
outsideSuggest ==
    <<loopVars, gwVars, concVars, ruVars, cvVars, hoVars, anVars, inVars>>
outsideRules ==
    <<loopVars, gwVars, concVars, sgVars, cvVars, hoVars, anVars, inVars>>
outsideConvert ==
    <<loopVars, gwVars, concVars, sgVars, ruVars, hoVars, anVars, inVars>>
outsideHoist ==
    <<loopVars, gwVars, concVars, sgVars, ruVars, cvVars, anVars, inVars>>
outsideAnalyze ==
    <<loopVars, gwVars, concVars, sgVars, ruVars, cvVars, hoVars, inVars>>
outsideProcess ==
    <<loopVars, gwVars, concVars, sgVars, ruVars, cvVars, hoVars, anVars>>

LoopNext ==
    \/ \E out \in ConvertOutcomes : Convert(out) /\ UNCHANGED outsideLoop
    \/ \E rows \in ResultRows : ExecuteSuccess(rows) /\ UNCHANGED outsideLoop
    \/ \E err \in ErrorMsgs \cup {NoErrorKey} :
          ExecuteFailure(err) /\ UNCHANGED outsideLoop
    \/ ExecuteRaises /\ UNCHANGED outsideLoop
    \/ \E llm \in LlmOutcomes : Repair(llm) /\ UNCHANGED outsideLoop

GwNext ==
    \/ \E testOk \in BOOLEAN, authOk \in BOOLEAN :
          ExecuteAuth(testOk, authOk) /\ UNCHANGED outsideGw
    \/ ExecuteRows /\ UNCHANGED outsideGw
    \/ ExecuteRaise /\ UNCHANGED outsideGw
    \/ \E args \in ConnectArgs, authOk \in BOOLEAN :
          Connect(args, authOk) /\ UNCHANGED outsideGw
    \/ \E f \in Fields : ClearField(f) /\ UNCHANGED outsideGw
    \/ InvalidateConnection /\ UNCHANGED outsideGw

ConcNext ==
    \/ \E c \in Callers : CallBegins(c) /\ UNCHANGED outsideConc
    \/ \E c \in Callers, authOk \in BOOLEAN :
          ConnectReturns(c, authOk) /\ UNCHANGED outsideConc
    \/ \E c \in Callers, testOk \in BOOLEAN :
          TestRuns(c, testOk) /\ UNCHANGED outsideConc
    \/ \E c \in Callers : TestReturns(c) /\ UNCHANGED outsideConc
    \/ \E c \in Callers : QueryStarts(c) /\ UNCHANGED outsideConc
    \/ \E c \in Callers, queryOk \in BOOLEAN :
          QueryReturns(c, queryOk) /\ UNCHANGED outsideConc

SuggestNext == GenerateSuggestions /\ UNCHANGED outsideSuggest

Init == LoopInit /\ GwAtRest /\ ConcAtRest /\ FnAtRest

Next == LoopNext

\* one run of test_and_fix_query
Spec == Init /\ [][Next]_vars

\* the steps of a run in which every call returns to test_and_fix_query:
\* convert returns or raises into the handler of lines 65-71, execute_query
\* returns its pair, the model call returns or raises into the handler of
\* _get_correction
ReturningNext ==
    \/ \E out \in ConvertOutcomes : Convert(out) /\ UNCHANGED outsideLoop
    \/ \E rows \in ResultRows : ExecuteSuccess(rows) /\ UNCHANGED outsideLoop
    \/ \E err \in ErrorMsgs \cup {NoErrorKey} :
          ExecuteFailure(err) /\ UNCHANGED outsideLoop
    \/ \E llm \in LlmOutcomes : Repair(llm) /\ UNCHANGED outsideLoop

\* one run of test_and_fix_query whose calls all return: the coroutine is
\* resumed whenever the call it awaits has returned, so a step that can be
\* taken is taken
TerminationSpec == Init /\ [][ReturningNext]_vars /\ WF_vars(ReturningNext)

GatewayInit == GwInit /\ LoopAtRest /\ ConcAtRest /\ FnAtRest

\* one FireboltClient and its callers, one call at a time
GatewaySpec == GatewayInit /\ [][GwNext]_vars

ConcurrentInit == GwInit /\ LoopAtRest /\ ConcAtRest /\ FnAtRest

\* one FireboltClient shared by concurrent callers
ConcurrentSpec == ConcurrentInit /\ [][ConcNext]_vars

SuggestSpecInit ==
    /\ SuggestInit
    /\ LoopAtRest /\ GwAtRest /\ ConcAtRest /\ RulesAtRest /\ ConvertAtRest
    /\ HoistAtRest /\ AnalyzeAtRest /\ ProcessAtRest

\* _generate_manual_fix_suggestions on the logs of FailureLogs
SuggestSpec == SuggestSpecInit /\ [][SuggestNext]_vars

RulesNext ==
    \/ ApplyOnce /\ UNCHANGED outsideRules
    \/ ApplyAgain /\ UNCHANGED outsideRules

RulesSpecInit ==
    /\ RulesInit
    /\ LoopAtRest /\ GwAtRest /\ ConcAtRest /\ SuggestAtRest /\ ConvertAtRest
    /\ HoistAtRest /\ AnalyzeAtRest /\ ProcessAtRest

\* apply_patterns on the texts of RuleInputs, once and twice
RulesSpec == RulesSpecInit /\ [][RulesNext]_vars

ConvertNext ==
    \E ai \in AiOutcomes \cup {NoAi} : ConvertCall(ai) /\ UNCHANGED outsideConvert

ConvertSpecInit ==
    /\ ConvertInit
    /\ LoopAtRest /\ GwAtRest /\ ConcAtRest /\ SuggestAtRest /\ RulesAtRest
    /\ HoistAtRest /\ AnalyzeAtRest /\ ProcessAtRest

\* convert on the queries of ConvertQueries, under each setting of the
\* polish flag and of the credential, with each outcome of the model call
ConvertSpec == ConvertSpecInit /\ [][ConvertNext]_vars

HoistNext == HoistCall /\ UNCHANGED outsideHoist

HoistSpecInit ==
    /\ HoistInit
    /\ LoopAtRest /\ GwAtRest /\ ConcAtRest /\ SuggestAtRest /\ RulesAtRest
    /\ ConvertAtRest /\ AnalyzeAtRest /\ ProcessAtRest

\* _refactor_extract_scalar_subqueries on the texts of HoistTexts
HoistSpec == HoistSpecInit /\ [][HoistNext]_vars

AnalyzeNext ==
    \/ AnalyzeOnce /\ UNCHANGED outsideAnalyze
    \/ AnalyzeAgain /\ UNCHANGED outsideAnalyze

AnalyzeSpecInit ==
    /\ AnalyzeInit
    /\ LoopAtRest /\ GwAtRest /\ ConcAtRest /\ SuggestAtRest /\ RulesAtRest
    /\ ConvertAtRest /\ HoistAtRest /\ ProcessAtRest

\* analyze_error on the messages of AnalyzerMessages and the queries of
\* AnalyzerQueries, twice on the same analyzer
AnalyzeSpec == AnalyzeSpecInit /\ [][AnalyzeNext]_vars

ProcessNext ==
    \/ \E value \in EnvValues : SetPolishFlag(value) /\ UNCHANGED outsideProcess
    \/ \E i \in Instances, arg \in ModelKeys \cup {NoneV} :
          NewConverter(i, arg) /\ UNCHANGED outsideProcess
    \/ \E j \in Instances, arg \in ModelKeys \cup {NoneV} :
          NewTester(j, arg) /\ UNCHANGED outsideProcess
    \/ \E i \in Instances : ConverterConvert(i) /\ UNCHANGED outsideProcess
    \/ \E j \in Instances : TesterGetCorrection(j) /\ UNCHANGED outsideProcess

ProcessSpecInit ==
    /\ ProcessInit
    /\ LoopAtRest /\ GwAtRest /\ ConcAtRest /\ SuggestAtRest /\ RulesAtRest
    /\ ConvertAtRest /\ HoistAtRest /\ AnalyzeAtRest

\* two converters and two correction loops constructed and called in one
\* process
ProcessSpec == ProcessSpecInit /\ [][ProcessNext]_vars

\* ------------------------------------------------------------- claims
\* the run made at least one execute call and each returned a failure
AllExecutesFailed ==
    /\ Len(executed) >= 1
    /\ \A i \in 1..Len(executed) : executed[i].outcome = "failure"

\* C1: a run with maxAttempts = N >= 1 in which every execute returns a
\* failure ends with a report that has success = false, exactly N attempt
\* records numbered 1..N, all marked failure, and total_attempts = N,
\* whatever the repair step returned.
C1_AlwaysFailing ==
    (pc = "done" /\ max_correction_attempts >= 1 /\ AllExecutesFailed) =>
        /\ report.success = FALSE
        /\ Len(executed) = max_correction_attempts
        /\ Len(report.attempts) = max_correction_attempts
        /\ \A i \in 1..Len(report.attempts) :
              /\ report.attempts[i].attempt = i
              /\ report.attempts[i].success = FALSE
              /\ report.attempts[i].status = "failed"
        /\ report.total_attempts = max_correction_attempts

\* an exhausted run of three or more attempts in which a repair changed
\* the query
C1_Witness ==
    /\ pc = "done"
    /\ max_correction_attempts >= 3
    /\ AllExecutesFailed
    /\ Len(report.attempts) = max_correction_attempts
    /\ report.attempts[1].query # report.attempts[Len(report.attempts)].query

\* C2: when the first successful execute is attempt k, the report has
\* success = true, exactly k records (k-1 failures, then the success),
\* total_attempts = k, and nothing follows: the run is over, there is no
\* further execute call and no repair request for attempt k or later.
C2_FirstSuccessEnds ==
    \A k \in 1..Len(executed) :
        executed[k].outcome = "rows" =>
            /\ pc = "done"
            /\ Len(executed) = k
            /\ k <= max_correction_attempts
            /\ report.success = TRUE
            /\ Len(report.attempts) = k
            /\ \A i \in 1..(k - 1) : report.attempts[i].success = FALSE
            /\ report.attempts[k].success = TRUE
            /\ report.total_attempts = k
            /\ \A j \in 1..Len(repair_requests) : repair_requests[j].attempt < k
            /\ correction.attempt < k

\* success on attempt 2 of a larger budget, after one repair request
C2_Witness ==
    /\ Len(executed) = 2
    /\ executed[1].outcome = "failure"
    /\ executed[2].outcome = "rows"
    /\ max_correction_attempts >= 3
    /\ Len(repair_requests) = 1
    /\ pc = "done"

\* the error of attempt n occurred at an earlier attempt of the run
OccurredBefore(n) ==
    \E j \in 1..(n - 1) :
        /\ attempts[j].success = FALSE
        /\ attempts[j].error = attempts[n].error

\* C3: every repair request is the escalated one exactly when the error
\* string of the failure it follows already occurred at an earlier attempt
\* of the same run.
C3_EscalationIffRepeated ==
    \A r \in 1..Len(repair_requests) :
        LET req == repair_requests[r] IN
        /\ req.attempt \in 1..Len(attempts)
        /\ req.error = attempts[req.attempt].error
        /\ req.escalated <=> OccurredBefore(req.attempt)

\* errors A, B, A: the request after attempt 2 is a first occurrence, the
\* one after attempt 3 is escalated
C3_Witness ==
    /\ Len(attempts) >= 3
    /\ \A i \in 1..3 : attempts[i].success = FALSE
    /\ attempts[1].error = attempts[3].error
    /\ attempts[2].error # attempts[1].error
    /\ \E r \in 1..Len(repair_requests) :
          repair_requests[r].attempt = 2 /\ ~repair_requests[r].escalated
    /\ \E r \in 1..Len(repair_requests) :
          repair_requests[r].attempt = 3 /\ repair_requests[r].escalated

\* the text the attempt after the last repair executes, or will execute
QueryAfterRepair ==
    IF Len(executed) > correction.attempt
    THEN executed[correction.attempt + 1].query
    ELSE converted_query

\* the repair text is useless: no answer, an empty one, or one that
\* normalizes to the query that just failed
NoUsableCorrection ==
    \/ correction.kind # "text"
    \/ correction.text = <<>>
    \/ normalize_sql(correction.text) =
          normalize_sql(attempts[correction.attempt].query)

\* C4: if the repair text (the answer after fence stripping) is empty or
\* normalizes to the query that just failed, the next attempt executes the
\* text of the failed attempt; the query differs between two consecutive
\* attempts only when the repair text is non-empty and normalizes
\* differently, and then the next query is that text.
C4_QueryChangesOnlyOnRealCorrection ==
    correction.kind # "none" =>
        /\ correction.attempt \in 1..Len(attempts)
        /\ NoUsableCorrection =>
              QueryAfterRepair = attempts[correction.attempt].query
        /\ QueryAfterRepair # attempts[correction.attempt].query =>
              /\ ~NoUsableCorrection
              /\ QueryAfterRepair = correction.text

\* an answer that differs from the failed query as text, but not after
\* normalization, and the next attempt ran the failed text again
C4_Witness ==
    /\ correction.kind = "text"
    /\ correction.text # <<>>
    /\ correction.text # attempts[correction.attempt].query
    /\ normalize_sql(correction.text) =
          normalize_sql(attempts[correction.attempt].query)
    /\ Len(executed) > correction.attempt
    /\ executed[correction.attempt + 1].query =
          attempts[correction.attempt].query

\* the records of the log are those of the execute calls so far, in order
LogMatchesExecutes ==
    /\ Len(attempts) = Cardinality({i \in 1..Len(executed) :
                                       executed[i].outcome # "raises"})
    /\ \A i \in 1..Len(attempts) :
          /\ attempts[i].attempt = i
          /\ attempts[i].query = executed[i].query
          /\ attempts[i].success = (executed[i].outcome = "rows")
    /\ (pc = "done" /\ report.kind # "conversion_failed") =>
          report.attempts = attempts

\* a step changes the log only by appending one record
LogAppendOnly ==
    /\ Len(attempts') \in {Len(attempts), Len(attempts) + 1}
    /\ SubSeq(attempts', 1, Len(attempts)) = attempts
    /\ (Len(executed') > Len(executed) /\ pc' # "raised") =>
          Len(attempts') = Len(attempts) + 1

\* C5: the attempt log is append-only: every execute call that returns
\* (success or failure, the exhausting one included) appends exactly one
\* record, numbered with the 1-based index of the call and holding the
\* executed text; no later step changes or removes a record; the report
\* carries the whole ordered log.
C5_LogAppendOnly == [](LogMatchesExecutes) /\ [][LogAppendOnly]_vars

\* an exhausted run whose log holds different query texts
C5_Witness ==
    /\ pc = "done"
    /\ report.kind = "exhausted"
    /\ Len(report.attempts) >= 3
    /\ report.attempts[1].query # report.attempts[2].query
    /\ report.attempts[2].query # report.attempts[3].query

\* a repair step leaves the query or replaces it by the repair text, and
\* no step after the first converts again
NoReconversion ==
    /\ pc # "convert" => convert_calls' = convert_calls
    /\ pc = "repair" => converted_query' \in {converted_query, correction'.text}
    /\ pc = "execute" =>
          /\ converted_query' = converted_query
          /\ executed'[Len(executed')].query = converted_query

\* C6: the converter is invoked exactly once per run, before the first
\* execute; every later attempt executes the previous query or the text
\* the repair step returned, however many attempts fail.
C6_ConvertOnce ==
    /\ [](convert_calls = (IF pc = "convert" THEN 0 ELSE 1))
    /\ [][NoReconversion]_vars

\* after the conversion, failures, an answer that is no correction (the
\* query stays) and one that is (the query becomes the answer)
C6_Witness ==
    /\ convert_calls = 1
    /\ Len(executed) >= 3
    /\ executed[2].query = executed[1].query
    /\ executed[3].query # executed[2].query
    /\ executed[3].query # postgresql_query

\* C7: when the connector raises while the query runs, the handler drops
\* the connection and leaves the five credential fields and the backup as
\* they are; the execute call right after it authenticates again with
\* exactly that retained profile, the caller passing no credentials.
C7_RaiseDropsConnectionOnly ==
    /\ [][(gw_pc = "run" /\ gw_event'.ret = "raised") =>
            /\ connection'.open = FALSE
            /\ creds' = creds
            /\ original_credentials' = original_credentials
            /\ all_required(creds')]_vars
    /\ [][(gw_pc = "idle" /\ gw_event.ret = "raised"
           /\ gw_event'.op = "execute" /\ gw_event'.prev = "raised") =>
            /\ gw_event'.auth \in {"ok", "failed"}
            /\ gw_event'.auth_profile = creds
            /\ creds' = creds
            /\ (gw_event'.auth = "ok" =>
                  connection' = [open |-> TRUE, profile |-> creds])]_vars

\* an execute that followed a raising one and authenticated again
C7_Witness ==
    /\ gw_event.op = "execute"
    /\ gw_event.prev = "raised"
    /\ gw_event.auth = "ok"
    /\ connection.open
    /\ connection.profile = creds
    /\ creds["engine"] # NoneV

\* exactly one field of a profile whose backup is complete is unset
OneFieldCleared ==
    /\ \A f \in Fields : original_credentials[f] # NoneV
    /\ \E f \in Fields :
          /\ creds[f] = NoneV
          /\ \A g \in Fields \ {f} : creds[g] = original_credentials[g]

\* C8: with a fully populated profile, one field cleared and no connection,
\* the next execute restores the field from the backup, authenticates with
\* the restored profile and does not fail for missing credentials.
C8_SelfHealing ==
    [][(gw_pc = "idle" /\ OneFieldCleared /\ ~connection.open
        /\ gw_event'.op = "execute") =>
          /\ creds' = original_credentials
          /\ gw_event'.auth \in {"ok", "failed"}
          /\ gw_event'.auth_profile = original_credentials
          /\ (gw_event'.auth = "ok" => gw_pc' = "run")]_vars

\* C9: when the connector raises while the query runs, execute returns the
\* structured failure (error, error_type execution_error) and does not
\* raise.
C9_RaiseBecomesFailure ==
    [][(gw_pc = "run" /\ gw_pc' = "idle" /\ gw_event'.ret # "rows") =>
          /\ gw_event'.ret = "failure"
          /\ gw_event'.error_type = "execution_error"]_vars

\* C10: a run never ends by propagating an exception: it ends with a
\* report.
C10_NoExceptionEscapes ==
    /\ pc # "raised"
    /\ pc = "done" => report.kind \in {"success", "exhausted", "conversion_failed"}

\* a required field is unset and the backup does not hold it either
Unrestorable(f) == creds[f] = NoneV /\ original_credentials[f] = NoneV

\* C11: when a required credential field is unset and the backup cannot
\* restore it, execute returns at once the failure with error_type
\* auth_error and the message that tells for each required field whether
\* it is present, the missing ones being exactly the unrestorable ones; the
\* connector's connect is not called and the query is not run.
C11_MissingCredentialsFailFast ==
    [][(gw_pc = "idle" /\ gw_event'.op = "execute"
        /\ \E f \in Required : Unrestorable(f)) =>
          /\ gw_event'.ret = "failure"
          /\ gw_event'.error_type = "auth_error"
          /\ gw_event'.error = MissingCredentialsText
          /\ gw_event'.error_present =
                {f \in Required : ~Unrestorable(f)}
          /\ gw_event'.auth = "missing"
          /\ gw_pc' = "idle"
          /\ connection'.open = FALSE]_vars

\* a failed execute whose message reports the client secret as the only
\* missing field, after another lost field was restored from the backup
C11_Witness ==
    /\ gw_event.op = "execute"
    /\ gw_event.ret = "failure"
    /\ gw_event.error_type = "auth_error"
    /\ gw_event.restored
    /\ gw_event.error_present = Required \ {"client_secret"}
    /\ gw_event.auth = "missing"
    /\ gw_pc = "idle"
\* between a call's authentication check and its use of the handle, and
\* while it uses it, nobody else drops or replaces self.connection
HandleStable ==
    \A c \in Callers :
        (calls[c].pc \in {"submitted", "running"} /\ calls'[c] = calls[c])
            => handle_id' = handle_id

\* C12: concurrent callers of one gateway are serialized: no call drops or
\* replaces the shared connection handle between another call's
\* authentication check and that call's use of the handle, and no call
\* runs its query against a handle that is none or that another call has
\* dropped.
C12_CallersSerialized ==
    /\ [](\A c \in Callers :
             calls[c].pc = "running" =>
                 calls[c].handle # NoHandle /\ calls[c].handle = handle_id)
    /\ [][HandleStable]_vars
\* the last repair call failed: no credential, import failure or exception
RepairFailed == correction.kind \in {"no_key", "import_fails", "raises"}

\* C13: a failed repair call (exception or no credential) is not fatal: the
\* failed attempt stays in the log, the loop goes on to the next attempt
\* with the query unchanged, and a run whose execute calls all return still
\* ends in success or in the exhausted report after maxAttempts attempts.
C13_RepairFailureNotFatal ==
    /\ [](RepairFailed =>
            /\ correction.attempt \in 1..Len(attempts)
            /\ attempts[correction.attempt].success = FALSE
            /\ QueryAfterRepair = attempts[correction.attempt].query
            /\ pc \in {"execute", "repair", "done", "raised"}
            /\ (pc = "raised" => executed[Len(executed)].outcome = "raises")
            /\ (pc = "done" =>
                  /\ report.kind \in {"success", "exhausted"}
                  /\ Len(report.attempts) > correction.attempt
                  /\ (report.kind = "exhausted" =>
                        /\ Len(report.attempts) = max_correction_attempts
                        /\ report.total_attempts = max_correction_attempts)))
    /\ [][(pc = "repair" /\ correction'.attempt = attempt
           /\ correction'.kind \in {"no_key", "import_fails", "raises"}) =>
            /\ pc' = "execute"
            /\ attempt' = attempt + 1
            /\ attempt' <= max_correction_attempts
            /\ attempts' = attempts
            /\ converted_query' = converted_query]_vars

\* a run with a key whose last repair call raised and which went on to the
\* last attempt and ended exhausted
C13_Witness ==
    /\ pc = "done"
    /\ report.kind = "exhausted"
    /\ correction.kind = "raises"
    /\ max_correction_attempts >= 3
    /\ correction.attempt = max_correction_attempts - 1
    /\ Len(report.attempts) = max_correction_attempts

\* C17: every report of a run, whatever maxAttempts is and the
\* conversion-failed report included, carries total_attempts equal to the
\* number of records in attempts, carries final_result exactly when
\* success is true, and carries suggestions whenever success is false.
C17_ReportShape ==
    pc = "done" =>
        /\ "total_attempts" \in DOMAIN report
        /\ report.total_attempts = Len(report.attempts)
        /\ ("final_result" \in DOMAIN report) <=> report.success
        /\ ~report.success => "suggestions" \in DOMAIN report

\* some failed attempt of the log has an error that contains the trigger
ExtractTriggered ==
    \E i \in 1..Len(sg_attempts) :
        ContainsLower(sg_attempts[i].error, "extract()")
SyntaxTriggered ==
    \E i \in 1..Len(sg_attempts) :
        ContainsLower(sg_attempts[i].error, "syntax error")
CastTriggered ==
    \E i \in 1..Len(sg_attempts) : Contains(sg_attempts[i].error, "::")

Suggested(h) == \E i \in 1..Len(sg_out) : sg_out[i] = h

\* C18: the suggestions generated on exhaustion hold no string twice, hold
\* the hint of a trigger (extract(), syntax error, ::) exactly when the
\* error of some failed attempt contains that trigger, are the single
\* generic hint when no trigger occurs, and are never empty.
C18_SuggestionsFromTriggers ==
    sg_pc = "done" =>
        /\ \A i, j \in 1..Len(sg_out) : sg_out[i] = sg_out[j] => i = j
        /\ Suggested(HintExtract) <=> ExtractTriggered
        /\ Suggested(HintSyntax) <=> SyntaxTriggered
        /\ Suggested(HintCast) <=> CastTriggered
        /\ (~ExtractTriggered /\ ~SyntaxTriggered /\ ~CastTriggered)
              => sg_out = <<HintGeneric>>
        /\ sg_out # <<>>

\* a log where one trigger occurs in two attempts and another in one, and
\* a log without any trigger, have been answered
C18_Witness ==
    /\ sg_pc = "done"
    /\ Len(sg_attempts) = 3
    /\ sg_attempts[1].error = sg_attempts[2].error
    /\ SyntaxTriggered /\ CastTriggered /\ ~ExtractTriggered
    /\ Len(sg_out) = 2
    /\ sg_out[1] = HintCast

\* C19: the functions rule set is idempotent: applying it to its own
\* output gives that output again, for every text; a NOW() that carries
\* the time zone is not qualified again and no output of a functions rule
\* is rewritten by the second application.
C19_FunctionsIdempotent ==
    (ru_pc = "twice" /\ ru_type = "functions") => ru_twice = ru_once

\* what the rule-based stages give for the query of the call
RuleBased == apply_rule_based_conversion(StripSql(cv_query.text))

\* what the polish step has left of the response of the model
PolishedText == clean_ai_response(ResponseContent(cv_ai, RuleBased.sql))

\* the model was called and raised, or its response was empty
PolishFailed ==
    /\ ModelIsCalled
    /\ cv_ai.kind = "raises" \/ PolishedText = <<>>

HasWarning(w) ==
    \E i \in 1..Len(cv_result.warnings) : cv_result.warnings[i] = w

\* C14: with the polish enabled, a call of the model that raises or that
\* returns an empty response leaves convert returning the rule-based
\* output with method_used rule_based, with a warning when the call
\* raised; no call of the model makes convert raise or return a failed
\* result.
C14_PolishNeverFails ==
    (cv_pc = "done" /\ ModelIsCalled) =>
        /\ cv_result.kind = "returned"
        /\ cv_result.method_used # "failed"
        /\ PolishFailed =>
              /\ cv_result.converted_sql = RuleBased.sql
              /\ cv_result.method_used = "rule_based"
              /\ cv_result.explanations = RuleBased.explanations
              /\ cv_ai.kind = "raises" => HasWarning(PolishSkipped)

\* a query that the rules rewrite was converted while the call of the
\* model raised, and the rule-based output came back with the warning
C14_Witness ==
    /\ cv_pc = "done"
    /\ ModelIsCalled
    /\ cv_ai.kind = "raises"
    /\ cv_result.kind = "returned"
    /\ cv_result.converted_sql # StripSql(cv_query.text)
    /\ cv_result.converted_sql = RuleBased.sql
    /\ HasWarning(PolishSkipped)

\* C15: convert gives method_used rule_based+ai and the response of the
\* model as converted_sql exactly when the polish flag is on, a credential
\* is configured and the model returned a non-empty response that differs
\* from the rule-based output; in every other case method_used is
\* rule_based and converted_sql is the rule-based output.
C15_PolishOnlyWhenDifferent ==
    (cv_pc = "done" /\ cv_result.kind = "returned") =>
        IF /\ ModelIsCalled
           /\ cv_ai.kind = "content"
           /\ PolishedText # <<>>
           /\ PolishedText # RuleBased.sql
        THEN /\ cv_result.method_used = "rule_based+ai"
             /\ cv_result.converted_sql = PolishedText
        ELSE /\ cv_result.method_used = "rule_based"
             /\ cv_result.converted_sql = RuleBased.sql

\* C16: when a rewrite stage throws, convert does not raise: it returns a
\* result with method_used failed whose converted_sql is the text it was
\* given.
C16_StageErrorGivesFailedResult ==
    (cv_pc = "done" /\ cv_query.kind = "bytes") =>
        /\ cv_result.kind = "returned"
        /\ cv_result.method_used = "failed"
        /\ cv_result.converted_sql = cv_query.text

\* part occurs in the text s
HasPart(s, part) ==
    \E i \in 1..(Len(s) + 1 - Len(part)) :
        SubSeq(s, i, i + Len(part) - 1) = part

\* the query is SELECT f FROM u for a column with a json or jsonb cast
\* followed by ->> and a quoted key
JsonCastQueries ==
    {[kind |-> "str",
      text |-> <<" ", "SELECT", " ">> \o f \o <<" ", "FROM", " ", "u", " ">>] :
        f \in {FragJsonArrow, FragJsonbArrow}}

\* C20: for col::json->>'k' and col::jsonb->>'k' the rule-based output
\* holds JSON_VALUE(JSON_POINTER_EXTRACT_TEXT(col, '/k')) on the bare
\* column, and neither a cast nor a JSON operator.
C20_JsonCastStripped ==
    (cv_pc = "done" /\ cv_query \in JsonCastQueries
        /\ cv_result.method_used = "rule_based") =>
        /\ cv_result.converted_sql =
              <<"SELECT", " ">> \o JsonValue(<<"d">>, <<"k">>)
                 \o <<" ", "FROM", " ", "u">>
        /\ ~HasPart(cv_result.converted_sql, <<"::">>)
        /\ ~HasPart(cv_result.converted_sql, <<"->>">>)
\* ---- the hoister, seen through the text it was given and the text it
\* returned
RECURSIVE Ascending(_)
Ascending(P) ==
    IF P = {} THEN <<>> ELSE <<Least(P)>> \o Ascending(P \ {Least(P)})

TokenAt(s, j) == IF j \in 1..Len(s) THEN s[j] ELSE ""

\* the positions of EXTRACT(unit FROM (SELECT MAX(col) FROM t)) in a text
InlinePositions(s) ==
    {j \in 1..Len(s) :
        /\ s[j] = "EXTRACT" /\ TokenAt(s, j + 2) \in {"MONTH", "YEAR"}
        /\ TokenAt(s, j + 6) = "(" /\ TokenAt(s, j + 7) = "SELECT"
        /\ TokenAt(s, j + 9) = "MAX"}

\* the columns of those occurrences, left to right
InlineColumns(s) ==
    LET at == Ascending(InlinePositions(s))
    IN [n \in 1..Len(at) |-> s[at[n] + 11]]

\* the positions of EXTRACT(unit FROM alias.column) in a text
ReferencePositions(s) ==
    {j \in 1..Len(s) :
        /\ s[j] = "EXTRACT" /\ TokenAt(s, j + 4) = "FROM"
        /\ TokenAt(s, j + 7) = "." /\ TokenAt(s, j + 9) = ")"}

\* alias.column of those references, left to right
References(s) ==
    LET at == Ascending(ReferencePositions(s))
    IN [n \in 1..Len(at) |-> [sub |-> s[at[n] + 6], col |-> s[at[n] + 8]]]

\* the positions of (SELECT MAX(col) AS c FROM t) AS a in a text
DerivedPositions(s) ==
    {j \in 1..Len(s) :
        /\ s[j] = "(" /\ TokenAt(s, j + 1) = "SELECT"
        /\ TokenAt(s, j + 3) = "MAX" /\ TokenAt(s, j + 8) = "AS"
        /\ TokenAt(s, j + 12) = "FROM" /\ TokenAt(s, j + 15) = ")"
        /\ TokenAt(s, j + 17) = "AS"}

\* the derived tables of a text, left to right
DerivedTables(s) ==
    LET at == Ascending(DerivedPositions(s))
    IN [n \in 1..Len(at) |->
           [expr |-> s[at[n] + 5], col |-> s[at[n] + 10],
            table |-> s[at[n] + 14], sub |-> s[at[n] + 19], at |-> at[n]]]

\* the occurrences i and j of the given text hold the same inner subquery
SameInner(i, j) ==
    LET same_cols == InlineColumns(ho_sql)
    IN /\ i \in 1..Len(same_cols) /\ j \in 1..Len(same_cols) /\ i # j
       /\ same_cols[i] = same_cols[j]

\* C21: when two or more EXTRACT(MONTH|YEAR FROM (SELECT MAX(expr) FROM
\* table)) of a statement hold the same inner subquery, the returned text
\* holds exactly one derived table for that subquery, with one subquery
\* alias and one column alias, none of the occurrences is left in place,
\* and each of them reads alias.column of that one derived table
C21_OneBindingPerSubquery ==
    ho_pc = "done" =>
        \A i \in 1..Len(InlineColumns(ho_sql)) :
        \A j \in 1..Len(InlineColumns(ho_sql)) :
            SameInner(i, j) =>
                LET c21_refs == References(ho_out.sql)
                    c21_tabs == DerivedTables(ho_out.sql)
                    c21_mine == {k \in 1..Len(c21_tabs) :
                                    c21_tabs[k].expr = InlineColumns(ho_sql)[i]}
                IN /\ InlinePositions(ho_out.sql) = {}
                   /\ Len(c21_refs) = Len(InlineColumns(ho_sql))
                   /\ c21_refs[i] = c21_refs[j]
                   /\ Cardinality(c21_mine) = 1
                   /\ \A k \in c21_mine :
                         /\ c21_tabs[k].sub = c21_refs[i].sub
                         /\ c21_tabs[k].col = c21_refs[i].col

\* a call returned for a statement with three occurrences, the first and
\* the third with the same inner subquery, and the text holds two derived
\* tables
C21_Witness ==
    /\ ho_pc = "done"
    /\ SameInner(1, 3)
    /\ Len(DerivedTables(ho_out.sql)) = 2
    /\ Len(References(ho_out.sql)) = 3

ClauseWords == {"WHERE", "GROUP", "ORDER", "LIMIT", "HAVING"}

\* position j of a text lies in the FROM clause of the statement: a FROM
\* that is not the FROM of an EXTRACT stands before it, and neither a
\* later clause nor the end of the statement lies between the two
InFromClause(s, j) ==
    \E f \in 1..(j - 1) :
        /\ s[f] = "FROM"
        /\ FoldWord(TokenAt(s, f - 2)) \notin ExtractUnits
        /\ \A b \in (f + 1)..(j - 1) : s[b] \notin ClauseWords \cup {";"}

\* the given text is a SELECT statement with exactly one
\* EXTRACT(MONTH FROM (SELECT MAX(x) FROM t))
OneMonthOccurrence ==
    /\ ho_sql # <<>> /\ ho_sql[1] = "SELECT"
    /\ Cardinality(InlinePositions(ho_sql)) = 1
    /\ \A j \in InlinePositions(ho_sql) : ho_sql[j + 2] = "MONTH"

\* C22: for a statement with exactly one EXTRACT(MONTH FROM (SELECT MAX(x)
\* FROM t)) the returned text holds no SELECT inside an EXTRACT, its
\* EXTRACT reads alias.column, and the derived table (SELECT MAX(x) AS
\* column FROM t) AS alias stands in the FROM clause of the statement
C22_HoistedIntoFrom ==
    (ho_pc = "done" /\ OneMonthOccurrence) =>
        LET c22_refs == References(ho_out.sql)
            c22_tabs == DerivedTables(ho_out.sql)
        IN /\ InlinePositions(ho_out.sql) = {}
           /\ Len(c22_refs) = 1
           /\ Len(c22_tabs) = 1
           /\ c22_tabs[1].sub = c22_refs[1].sub
           /\ c22_tabs[1].col = c22_refs[1].col
           /\ c22_tabs[1].expr = InlineColumns(ho_sql)[1]
           /\ InFromClause(ho_out.sql, c22_tabs[1].at)

\* ---- the rule stages of convert, seen through the query and the result
RulesOfType(pattern_type) ==
    CASE pattern_type = "json" -> JsonRules
      [] pattern_type = "datatypes" -> DatatypeRules
      [] pattern_type = "functions" -> FunctionRules

\* no rule of the set has a match anywhere in the text
NoRuleMatches(pattern_type, text) ==
    \A k \in 1..Len(RulesOfType(pattern_type)) :
        ~Search(RulePattern(RulesOfType(pattern_type)[k]), text)

\* no rule of any set and no hoisting pattern has a match in the text
NothingMatches(text) ==
    /\ \A pattern_type \in PatternTypes : NoRuleMatches(pattern_type, text)
    /\ ~Search(HoistPattern, text)

\* the text of the query of a finished call of convert, trimmed
TrimmedQuery == StripSql(cv_query.text)

ConvertReturned == cv_pc = "done" /\ cv_result.kind = "returned"

\* C23 as stated: a rule set leaves a text unchanged in which none of its
\* rules matches, and convert on a text in which no rule of any set and no
\* hoisting pattern matches returns the trimmed text as converted_sql and
\* an empty explanations list
C23_NoMatchNoChange_AsStated ==
    ConvertReturned =>
        /\ \A pattern_type \in PatternTypes :
              NoRuleMatches(pattern_type, TrimmedQuery) =>
                  apply_patterns(TrimmedQuery, pattern_type) = TrimmedQuery
        /\ NothingMatches(TrimmedQuery) =>
              /\ cv_result.converted_sql = TrimmedQuery
              /\ cv_result.explanations = <<>>

\* C23: a rule set leaves a text unchanged in which none of its rules
\* matches, and convert on a text in which no rule of any set and no
\* hoisting pattern matches returns the trimmed text as converted_sql and
\* an empty explanations list whenever its result was not polished by the
\* model (method_used is rule_based)
C23_NoMatchNoChange ==
    ConvertReturned =>
        /\ \A pattern_type \in PatternTypes :
              NoRuleMatches(pattern_type, TrimmedQuery) =>
                  apply_patterns(TrimmedQuery, pattern_type) = TrimmedQuery
        /\ (NothingMatches(TrimmedQuery)
               /\ cv_result.method_used = "rule_based") =>
              /\ cv_result.converted_sql = TrimmedQuery
              /\ cv_result.explanations = <<>>

\* convert returned, not polished, for a query that no rule and no
\* hoisting pattern matches and that had blanks around it
C23_Witness ==
    /\ ConvertReturned
    /\ NothingMatches(TrimmedQuery)
    /\ TrimmedQuery # cv_query.text
    /\ cv_result.method_used = "rule_based"
    /\ cv_result.converted_sql = TrimmedQuery

\* ---- the backup of the gateway's credentials
\* every field that is set has its value in the backup
BackupCoversFields ==
    \A f \in Fields : creds[f] # NoneV => original_credentials[f] = creds[f]

\* a step removes no field from the backup
BackupKeepsFields ==
    \A f \in Fields :
        original_credentials[f] # NoneV => original_credentials'[f] # NoneV

\* C24: after any sequence of constructor, connect, execute,
\* authentication failures and execution failures, every credential field
\* that is set has the same value in the backup, and a field once stored
\* in the backup is never removed from it
C24_BackupInvariant == [](BackupCoversFields) /\ [][BackupKeepsFields]_vars

\* connect replaced the client secret in the field and in the backup while
\* the client id was lost from the fields and is still in the backup, and
\* an execute then failed to authenticate
C24_Witness ==
    /\ creds["client_secret"] = "v2"
    /\ original_credentials["client_secret"] = "v2"
    /\ original_credentials["client_id"] = "v1"
    /\ gw_event.op = "execute"
    /\ gw_event.ret = "failure"
    /\ gw_event.before["client_id"] = NoneV

\* ---- the calls of one run of the correction loop
\* a budget below 1 allows no call
AtLeastZero(n) == IF n < 0 THEN 0 ELSE n

\* the repair requests sent so far: each for a failed attempt before the
\* last one, and no two for the same attempt
RepairRequestsInOrder ==
    /\ \A i \in 1..Len(repair_requests) :
          /\ repair_requests[i].attempt \in 1..Len(attempts)
          /\ ~attempts[repair_requests[i].attempt].success
          /\ repair_requests[i].attempt < max_correction_attempts
    /\ \A i \in 1..Len(repair_requests) : \A j \in 1..Len(repair_requests) :
          i < j => repair_requests[i].attempt < repair_requests[j].attempt

\* a step sends at most one repair request, and only from the repair step
\* that follows a failed attempt
OneRequestPerStep ==
    /\ Len(repair_requests') <= Len(repair_requests) + 1
    /\ repair_requests' # repair_requests =>
          /\ pc = "repair"
          /\ attempt < max_correction_attempts
          /\ ~attempts[attempt].success
          /\ repair_requests'[Len(repair_requests')].attempt = attempt
          /\ pc' = "execute"

\* C25: the loop sends at most one repair request per failed attempt,
\* none for the final attempt (attempt number = max_correction_attempts)
\* and none after a success, and never a second request for the same
\* attempt; over a run the repair requests number at most
\* max_correction_attempts - 1 and the execute calls at most
\* max_correction_attempts (a budget below 1 counting as no attempt)
C25_RepairRequestsBounded ==
    /\ [](/\ RepairRequestsInOrder
          /\ Len(repair_requests) <= AtLeastZero(max_correction_attempts - 1)
          /\ Len(executed) <= AtLeastZero(max_correction_attempts)
          /\ (attempts # <<>> /\ attempts[Len(attempts)].success) =>
                pc = "done")
    /\ [][OneRequestPerStep]_vars

\* an exhausted run with a budget of three attempts that sent a repair
\* request after the first and after the second attempt
C25_Witness ==
    /\ pc = "done"
    /\ report.kind = "exhausted"
    /\ max_correction_attempts = 3
    /\ Len(executed) = 3
    /\ Len(repair_requests) = 2

\* the calls of the session that have started and not returned: pc =
\* "execute" is the await of execute_query, pc = "repair" the await of
\* _get_correction
OutstandingCalls ==
    (IF pc = "execute" THEN {"execute"} ELSE {})
    \cup (IF pc = "repair" THEN {"repair"} ELSE {})

\* while the execute of an attempt is outstanding, the executes of all
\* earlier attempts have returned a failure and the repair of the attempt
\* before has completed; while a repair is outstanding, the execute of its
\* attempt has returned a failure and no later execute has started
CallsInTurn ==
    /\ Cardinality(OutstandingCalls) <= 1
    /\ pc = "execute" =>
          /\ Len(executed) = attempt - 1
          /\ \A k \in 1..(attempt - 1) : executed[k].outcome = "failure"
          /\ correction.attempt = attempt - 1
    /\ pc = "repair" =>
          /\ Len(executed) = attempt
          /\ executed[attempt].outcome = "failure"
          /\ correction.attempt = attempt - 1

\* the return of an execute starts no execute, the return of a repair
\* starts the execute of the next attempt, and no step returns two calls
CallsAlternate ==
    /\ pc = "execute" => pc' \in {"repair", "done", "raised"}
    /\ pc = "repair" =>
          /\ pc' = "execute"
          /\ attempt' = attempt + 1
          /\ executed' = executed
          /\ correction'.attempt = attempt
    /\ Len(executed') <= Len(executed) + 1

\* C26: within one correction session at most one execute or repair
\* request is outstanding at any time, and the execute of attempt k+1
\* starts only after the execute of attempt k has returned a failure and
\* the repair request for attempt k has completed
C26_StrictSequencing == [](CallsInTurn) /\ [][CallsAlternate]_vars

\* the execute of the third attempt is outstanding, after two failed
\* executes and the completed repair of the second attempt
C26_Witness ==
    /\ pc = "execute"
    /\ attempt = 3
    /\ Len(executed) = 2
    /\ correction.attempt = 2
    /\ correction.kind = "text"

\* ---- the order of the stages of convert
StageOrder == <<ExplainFunctions, ExplainJson, ExplainDatatypes, ExplainHoist>>

StageIndex(e) == CHOOSE n \in 1..Len(StageOrder) : StageOrder[n] = e

\* es is a subsequence of the explanations of the four stages, in order
InStageOrder(es) ==
    /\ \A i \in 1..Len(es) : \E n \in 1..Len(StageOrder) : StageOrder[n] = es[i]
    /\ \A i \in 1..Len(es) : \A j \in 1..Len(es) :
          i < j => StageIndex(es[i]) < StageIndex(es[j])

Explains(es, e) == \E i \in 1..Len(es) : es[i] = e

\* the explanations of a result without the one of the polish step
RuleExplanations(es) == SelectSeq(es, LAMBDA e : e # ExplainPolish)

\* the warnings of a result without the one of a failed polish step
RuleWarnings(ws) == SelectSeq(ws, LAMBDA w : w # PolishSkipped)

\* the result of convert agrees with the texts t0 (the trimmed query), s1,
\* s2, s3 and the hoister's result h, each made from the one before; es
\* are the explanations to compare
StagesAgree(es, t0, s1, s2, s3, h) ==
    /\ InStageOrder(es)
    /\ Explains(es, ExplainFunctions) <=> s1 # t0
    /\ Explains(es, ExplainJson) <=> s2 # s1
    /\ Explains(es, ExplainDatatypes) <=> s3 # s2
    /\ Explains(es, ExplainHoist) <=> h.sql # s3
    /\ cv_result.method_used = "rule_based" => cv_result.converted_sql = h.sql
    /\ RuleWarnings(cv_result.warnings) =
          (IF h.sql # s3 THEN h.notes ELSE <<>>)
             \o detect_unsupported_features(h.sql)

StagesFromDatatypes(es, t0, s1, s2, s3) ==
    StagesAgree(es, t0, s1, s2, s3, refactor_extract_scalar_subqueries(s3))

StagesFromJson(es, t0, s1, s2) ==
    StagesFromDatatypes(es, t0, s1, s2, apply_patterns(s2, "datatypes"))

StagesFromFunctions(es, t0, s1) ==
    StagesFromJson(es, t0, s1, apply_patterns(s1, "json"))

StagesInOrder(es) ==
    StagesFromFunctions(es, TrimmedQuery,
                        apply_patterns(TrimmedQuery, "functions"))

DistinctInner ==
    {InlineColumns(ho_sql)[n] : n \in 1..Len(InlineColumns(ho_sql))}

ColumnAliasesDistinct ==
    (ho_pc = "done" /\ Cardinality(DistinctInner) >= 2) =>
        LET ca_tabs == DerivedTables(ho_out.sql)
        IN /\ Len(ca_tabs) = Cardinality(DistinctInner)
           /\ \A i \in 1..Len(ca_tabs) : \A j \in 1..Len(ca_tabs) :
                 i # j => /\ ca_tabs[i].expr # ca_tabs[j].expr
                          /\ ca_tabs[i].col # ca_tabs[j].col
                          /\ ca_tabs[i].sub = "sub"

\* ---- where the hoister puts the derived tables
\* the FROM words of a text that are not the FROM of an EXTRACT(unit FROM
OuterFroms(s) ==
    {f \in 1..Len(s) :
        /\ s[f] = "FROM"
        /\ FoldWord(TokenAt(s, f - 2)) \notin ExtractUnits}

\* the given text has a FROM that is neither the FROM of an EXTRACT nor
\* part of an occurrence of the pattern
HasOuterFrom ==
    \E f \in OuterFroms(ho_sql) :
        \A j \in InlinePositions(ho_sql) : f < j \/ f > j + 18

\* a sequence without the repetitions of its elements
RECURSIVE FirstOccurrences(_, _)
FirstOccurrences(seq, seen) ==
    IF seq = <<>> THEN <<>>
    ELSE IF Head(seq) \in seen THEN FirstOccurrences(Tail(seq), seen)
    ELSE <<Head(seq)>> \o FirstOccurrences(Tail(seq), seen \cup {Head(seq)})

\* the text s with each EXTRACT(unit FROM alias.column) written back as
\* the EXTRACT over the subquery of the derived table of tabs that has
\* that column alias
RECURSIVE WrittenBack(_, _, _)
WrittenBack(s, j, tabs) ==
    IF j > Len(s) THEN <<>>
    ELSE IF j \in ReferencePositions(s)
              /\ \E n \in 1..Len(tabs) : tabs[n].col = s[j + 8]
    THEN LET wb_tab == tabs[CHOOSE n \in 1..Len(tabs) : tabs[n].col = s[j + 8]]
         IN <<"EXTRACT", "(", s[j + 2], " ", "FROM", " ", "(", "SELECT", " ",
              "MAX", "(", wb_tab.expr, ")", " ", "FROM", " ", wb_tab.table,
              ")", ")">> \o WrittenBack(s, j + 10, tabs)
    ELSE <<s[j]>> \o WrittenBack(s, j + 1, tabs)

\* the derived tables tabs of the text out form one list ", t1, t2, ..."
\* that starts at position first - 2 and ends at position last
ListedOnce(out, tabs, first, last) ==
    /\ TokenAt(out, first - 2) = "," /\ TokenAt(out, first - 1) = " "
    /\ last = tabs[Len(tabs)].at + 19
    /\ \A n \in 1..(Len(tabs) - 1) :
          /\ tabs[n + 1].at = tabs[n].at + 22
          /\ out[tabs[n].at + 20] = "," /\ out[tabs[n].at + 21] = " "

\* the list stands in the FROM clause of the outer FROM, before the first
\* clause keyword after it, or at the end of the text when none follows
AtClauseEnd(pre, post) ==
    /\ OuterFroms(pre) # {}
    /\ \A b \in (Least(OuterFroms(pre)) + 1)..Len(pre) : pre[b] \notin ClauseWords
    /\ post # <<>> => (post[1] = " " /\ TokenAt(post, 2) \in ClauseWords)

\* but for the list and the replaced EXTRACTs, and for the blanks at the
\* place of the list, the returned text is the given text
RestUnchanged(pre, post, tabs) ==
    LET ru_before == WrittenBack(pre, 1, tabs)
        ru_after == WrittenBack(LStripSql(post), 1, tabs)
    IN /\ StartsWith(ho_sql, ru_before)
       /\ LStripSql(SubSeq(ho_sql, Len(ru_before) + 1, Len(ho_sql))) = ru_after

InsertedAt(out, tabs, first, last) ==
    /\ ListedOnce(out, tabs, first, last)
    /\ AtClauseEnd(SubSeq(out, 1, first - 3), SubSeq(out, last + 1, Len(out)))
    /\ RestUnchanged(SubSeq(out, 1, first - 3),
                     SubSeq(out, last + 1, Len(out)), tabs)

\* C29: when the statement has an outer FROM (the first FROM that is not
\* the FROM of an EXTRACT time unit), the derived tables are inserted
\* exactly once, as one comma-prefixed comma-separated list in the order
\* of first occurrence, immediately before the earliest WHERE, GROUP BY,
\* ORDER BY, LIMIT or HAVING after that FROM, or at the end of the text if
\* none follows; the text before and after the list is unchanged apart
\* from the EXTRACT replacements
C29_InsertionPoint ==
    (ho_pc = "done" /\ InlinePositions(ho_sql) # {} /\ HasOuterFrom) =>
        LET c29_tabs == DerivedTables(ho_out.sql)
        IN /\ [n \in 1..Len(c29_tabs) |-> c29_tabs[n].expr] =
                 FirstOccurrences(InlineColumns(ho_sql), {})
           /\ InsertedAt(ho_out.sql, c29_tabs, c29_tabs[1].at,
                         c29_tabs[Len(c29_tabs)].at + 19)

\* a call returned for a statement with an outer FROM and a WHERE, and the
\* list of two derived tables, MAX(d) before MAX(e), ends right before
\* the WHERE
C29_Witness ==
    /\ ho_pc = "done"
    /\ HasOuterFrom
    /\ Len(DerivedTables(ho_out.sql)) = 2
    /\ DerivedTables(ho_out.sql)[1].expr = "d"
    /\ DerivedTables(ho_out.sql)[2].expr = "e"
    /\ TokenAt(ho_out.sql, DerivedTables(ho_out.sql)[2].at + 21) = "WHERE"
    /\ Len(InlineColumns(ho_sql)) = 3

\* ---- the hoister on texts it cannot rewrite
\* the pattern has no match in the given text
ZeroOccurrences == ~Search(HoistPattern, ho_sql)

\* the given text has no SELECT but those of the occurrences
NoSelectLeft ==
    \A k \in 1..Len(ho_sql) :
        FoldWord(ho_sql[k]) = "select" =>
            \E j \in InlinePositions(ho_sql) : k = j + 7

\* the pattern has a match and, the occurrences aside, the text has
\* neither an outer FROM nor a SELECT
NowhereToInsert == ~ZeroOccurrences /\ ~HasOuterFrom /\ NoSelectLeft

\* what convert returns for the given text, with the polish step off
ConvertOfHoisted ==
    convert([kind |-> "str", text |-> ho_sql], "unset", FALSE, NoAi)

\* C30: with no occurrence of the pattern the hoister returns the text
\* unchanged and no note; with an occurrence but neither an outer FROM
\* nor a SELECT left in the text it returns, without an exception, the
\* text with no FROM clause inserted and exactly one note, and convert
\* has that note among its warnings
C30_DegenerateInputs ==
    ho_pc = "done" =>
        /\ ZeroOccurrences => (ho_out.sql = ho_sql /\ ho_out.notes = <<>>)
        /\ NowhereToInsert =>
              /\ Len(ho_out.notes) = 1
              /\ DerivedTables(ho_out.sql) = <<>>
              /\ OuterFroms(ho_out.sql) = {}
              /\ Len(References(ho_out.sql)) = Len(InlineColumns(ho_sql))
              /\ ConvertOfHoisted.kind = "returned"
              /\ \E i \in 1..Len(ConvertOfHoisted.warnings) :
                    ConvertOfHoisted.warnings[i] = ho_out.notes[1]

\* a call returned for a text that is an EXTRACT over a subquery followed
\* by a WHERE, with the EXTRACT rewritten and the note
C30_Witness ==
    /\ ho_pc = "done"
    /\ NowhereToInsert
    /\ ho_out.notes = <<NoSelectNote>>
    /\ Len(References(ho_out.sql)) = 1
    /\ \E k \in 1..Len(ho_sql) : ho_sql[k] = "WHERE"


\* ---- the analysis of an error message
\* the categories in the order of their priority
CategoryOrder ==
    <<"unknown_function", "syntax_error", "column_error", "table_error",
      "subquery_error", "filter_error">>

\* the pattern of a category, and the categories whose pattern is found in
\* the lower-cased message
PatternOf(category) ==
    (CHOOSE e \in {error_patterns[k] : k \in 1..Len(error_patterns)} :
        e.type = category).pattern

MatchingCategories(message) ==
    {k \in 1..Len(CategoryOrder) :
        Search(<<PatternOf(CategoryOrder[k])>>, LowerText(message))}

Analyzed == an_pc \in {"once", "twice"}

FirstMatchWins ==
    Analyzed =>
        /\ (MatchingCategories(an_message) = {}) <=> (an_first.error_type = "unknown")
        /\ MatchingCategories(an_message) # {} =>
              an_first.error_type =
                 CategoryOrder[Least(MatchingCategories(an_message))]

FixedConfidence ==
    Analyzed =>
        /\ (an_first.confidence = 85) <=> (MatchingCategories(an_message) # {})
        /\ (an_first.confidence = 0) <=> (MatchingCategories(an_message) = {})

SameOnEveryCall == an_pc = "twice" => an_second = an_first

\* C31: analyze_error returns the category of the first pattern, in the
\* order unknown_function, syntax_error, column_error, table_error,
\* subquery_error, filter_error, that matches the lower-cased message, and
\* unknown exactly when none matches; the confidence is 85 exactly when a
\* pattern matched and 0 otherwise; a second call with the same message and
\* query returns the same result.
C31_FirstMatchWins == FirstMatchWins /\ FixedConfidence /\ SameOnEveryCall

\* a message in which the filter pattern matches before, in the text, the
\* function pattern does, analyzed twice
C31_Witness ==
    /\ an_pc = "twice"
    /\ an_message = MsgFilter \o <<":", " ">> \o MsgFunction
    /\ {1, 6} \subseteq MatchingCategories(an_message)
    /\ an_first.error_type = "unknown_function"
    /\ an_first.confidence = 85

\* ---- the suggestions of an analysis
MentionsCaseWhen(fix) ==
    \E i \in 1..(Len(fix) - 2) :
        fix[i] = "CASE" /\ fix[i + 1] = " " /\ fix[i + 2] = "WHEN"

MentionsDerivedTable(fix) ==
    HasToken(fix, "derived") /\ (HasToken(fix, "table") \/ HasToken(fix, "tables"))

SuggestsCaseWhen(analysis) ==
    \E i \in 1..Len(analysis.suggested_fixes) :
        MentionsCaseWhen(analysis.suggested_fixes[i])

SuggestsDerivedTable(analysis) ==
    \E i \in 1..Len(analysis.suggested_fixes) :
        MentionsDerivedTable(analysis.suggested_fixes[i])

FilterHintAlways ==
    (Analyzed /\ an_first.error_type = "filter_error") => SuggestsCaseWhen(an_first)

\* whatever the query, a subquery_error comes with the suggestion to use a
\* derived table
SubqueryHintAlways ==
    (Analyzed /\ an_first.error_type = "subquery_error") =>
        SuggestsDerivedTable(an_first)

\* a filter_error comes with the CASE WHEN suggestion when the query has a
\* FILTER clause of the form agg(...) FILTER (WHERE ...)
FilterHintOfClause ==
    (Analyzed /\ an_first.error_type = "filter_error") =>
        (SuggestsCaseWhen(an_first) <=> FindAll(filter_pattern, an_query, 1) # <<>>)

\* C32: for every message and query classified as filter_error the
\* suggested fixes contain a CASE WHEN rewrite, and for every message and
\* query classified as subquery_error they contain the suggestion to move
\* the scalar subquery into a derived table, whatever the query text.
C32_RemediationHints == FilterHintAlways /\ SubqueryHintAlways

\* ---- the error history of a run
StrictlyIncreasing(l) ==
    \A i \in 1..Len(l) : \A j \in 1..Len(l) : i < j => l[i] < l[j]

Occurrences(l, n) == Cardinality({i \in 1..Len(l) : l[i] = n})

\* a failed attempt is listed once under its own message and nowhere else
FailedAttemptsListed ==
    \A i \in 1..Len(attempts) :
        ~attempts[i].success =>
            \A m \in AllErrorMsgs :
                Occurrences(error_history[m], attempts[i].attempt) =
                   IF m = attempts[i].error THEN 1 ELSE 0

SuccessfulAttemptsUnlisted ==
    \A i \in 1..Len(attempts) :
        attempts[i].success =>
            \A m \in AllErrorMsgs :
                Occurrences(error_history[m], attempts[i].attempt) = 0

\* the lists hold nothing but the numbers of failed attempts
OnlyFailedAttemptsListed ==
    \A m \in AllErrorMsgs : \A k \in 1..Len(error_history[m]) :
        \E i \in 1..Len(attempts) :
            /\ ~attempts[i].success
            /\ attempts[i].attempt = error_history[m][k]
            /\ attempts[i].error = m

HistoryStartsEmpty ==
    (pc = "convert" \/ attempts = <<>>) =>
        \A m \in AllErrorMsgs : error_history[m] = <<>>

\* C34: at every point of a run each failed attempt number is in the list
\* of exactly one error message, the message of that attempt; each list is
\* strictly increasing; a successful attempt is in no list; the history is
\* empty when the run starts.
C34_ErrorHistory ==
    /\ FailedAttemptsListed
    /\ SuccessfulAttemptsUnlisted
    /\ OnlyFailedAttemptsListed
    /\ \A m \in AllErrorMsgs : StrictlyIncreasing(error_history[m])
    /\ HistoryStartsEmpty

\* a run whose attempts 1 and 3 failed with one message and whose attempt
\* 2 failed with another, and that then succeeded
C34_Witness ==
    /\ pc = "done"
    /\ Len(attempts) = 4
    /\ attempts[4].success
    /\ \E m \in AllErrorMsgs : \E n \in AllErrorMsgs :
          /\ m # n
          /\ error_history[m] = <<1, 3>>
          /\ error_history[n] = <<2>>

\* ---- the final query of a report
LastRecord(log) == log[Len(log)]

HasAttempts(r) == r.kind \in {"success", "exhausted"} /\ r.attempts # <<>>

\* C35: in every report with at least one attempt, final_query is the
\* query of the last attempt record, and in a report of success
\* final_result is the result of that record.
C35_FinalQueryIsLastAttempt ==
    HasAttempts(report) =>
        /\ report.final_query = LastRecord(report.attempts).query
        /\ report.success =>
              /\ LastRecord(report.attempts).success
              /\ report.final_result = LastRecord(report.attempts).result

\* a run that is exhausted after a repair replaced the query
C35_Witness ==
    /\ pc = "done"
    /\ report.kind = "exhausted"
    /\ Len(report.attempts) >= 2
    /\ report.final_query # report.attempts[1].query
    /\ report.final_query = LastRecord(report.attempts).query

\* a run that succeeds after a repair replaced the query
SuccessAfterRepair ==
    /\ pc = "done"
    /\ report.kind = "success"
    /\ Len(report.attempts) >= 2
    /\ report.final_query # report.attempts[1].query

\* ---- a run without a credential for the language model
NoKeyNoCall == ~openai_api_key => repair_requests = <<>>

NoKeyOneQuery ==
    ~openai_api_key =>
        \A i \in 1..Len(attempts) : attempts[i].query = converted_query

\* after the initial conversion the query of the run stays what it is
NoKeyKeepsConversion ==
    (~openai_api_key /\ pc # "convert") => converted_query' = converted_query

\* C37: without a credential for the language model the run calls the
\* model never, and every attempt record carries the same query, the one
\* the initial conversion returned.
C37_NoKeyNoRepair ==
    [](NoKeyNoCall /\ NoKeyOneQuery) /\ [][NoKeyKeepsConversion]_vars

\* a run without a credential, exhausted after three or more attempts on
\* a converted query that differs from its input
C37_Witness ==
    /\ ~openai_api_key
    /\ pc = "done"
    /\ report.kind = "exhausted"
    /\ Len(attempts) >= 3
    /\ converted_query # postgresql_query
    /\ correction.kind = "no_key"

\* ---- the profile of the connection a query runs on
\* the connection was opened with the credentials of another profile than
\* the gateway holds now
StaleConnection == connection.open /\ connection.profile # creds

\* a connect with new credentials has failed and left the connection of the
\* old profile in place
FailedConnectKeepsConnection ==
    /\ gw_pc = "idle"
    /\ gw_event.op = "connect"
    /\ gw_event.ret = "false"
    /\ StaleConnection

\* C36: whenever execute runs SQL, the connection it runs on was
\* authenticated under the credential profile the gateway holds at that
\* time, after any sequence of connect and execute calls.
C36_ConnectionMatchesProfile ==
    gw_pc = "run" => (connection.open /\ connection.profile = creds)

\* a query runs on a connection that authenticate has just opened: then the
\* profile is the current one
FreshConnectionMatches ==
    (gw_pc = "run" /\ gw_event.auth = "ok") =>
        (connection.open /\ connection.profile = creds)

\* ---- the end of a run
Terminal ==
    /\ pc = "done"
    /\ report.kind \in {"success", "exhausted", "conversion_failed"}

\* the attempts still to be made
AttemptsLeft ==
    IF pc = "convert" THEN max_correction_attempts + 1
    ELSE IF pc = "done" THEN 0
    ELSE max_correction_attempts - attempt + 1

\* a repair is followed by a later attempt, and the attempts left never
\* grow
Progresses ==
    /\ pc = "repair" => (pc' = "execute" /\ attempt' = attempt + 1)
    /\ pc # "convert" => AttemptsLeft' <= AttemptsLeft
    /\ pc = "execute" => (pc' = "done" \/ (pc' = "repair" /\ attempt < max_correction_attempts))

\* C38: when every call of the converter, the gateway and the language
\* model returns, a run reaches a terminal state (success, exhausted or
\* conversion failed) with its report, for every maxAttempts; each repair
\* is followed by an attempt with a higher number, so the same repair or
\* the same error cannot repeat for ever.
C38_Terminates == <>Terminal /\ [][Progresses]_vars

\* a run that ends exhausted after the same error on the same query in
\* each of three or more attempts, the model answering every repair request
\* with the failing query
C38_Witness ==
    /\ Terminal
    /\ report.kind = "exhausted"
    /\ max_correction_attempts >= 3
    /\ Len(attempts) = max_correction_attempts
    /\ Len(repair_requests) = max_correction_attempts - 1
    /\ \A i \in 1..Len(attempts) :
          /\ attempts[i].error = attempts[1].error
          /\ attempts[i].query = attempts[1].query

\* ---- instances in one process
ConvertCalls == {a \in 1..Len(call_log) : call_log[a].kind = "convert"}

\* convert calls of instances configured alike decide alike about the
\* polish step
PolishByConfiguration ==
    \A a \in ConvertCalls : \A b \in ConvertCalls :
        call_log[a].configured = call_log[b].configured =>
            call_log[a].called = call_log[b].called

\* a model call is made with the key the calling instance was configured
\* with
OwnCredential ==
    \A a \in 1..Len(call_log) :
        call_log[a].called => call_log[a].credential = call_log[a].configured

\* C33: whether convert applies the polish step, and the credential of a
\* polish or repair call, depend only on the configuration of the instance
\* that makes the call, not on other instances or on state of the process.
C33_InstancesIsolated == PolishByConfiguration /\ OwnCredential

\* the repair call of a correction loop is made with the loop's own key
RepairUsesOwnKey ==
    \A a \in 1..Len(call_log) :
        (call_log[a].kind = "repair" /\ call_log[a].called) =>
            call_log[a].credential = call_log[a].configured

\* a polish call of one converter made with the key of the other
PolishWithForeignKey ==
    \E a \in ConvertCalls :
        /\ call_log[a].called
        /\ call_log[a].credential # call_log[a].configured
        /\ \E i \in Instances :
              /\ i # call_log[a].instance
              /\ converters[i].made
              /\ converters[i].openai_api_key = call_log[a].credential
====
